---- MODULE Spec2Model ----
(***************************************************************************)
(* Model of the online judge: the execution engine (executor.py), the      *)
(* submission grader and the request handlers (app.py) and the repository  *)
(* writes (db.py).                                                         *)
(*                                                                         *)
(* Texts (Python str) are sequences of atoms.  An atom is a string that    *)
(* stands for one character ("\n", "\r", " ") or for one indivisible run   *)
(* of characters ("Time Limit Exceeded", "out1").  Substring tests,        *)
(* strip() and replace() work on atoms.                                    *)
(***************************************************************************)
EXTENDS Integers, Sequences, FiniteSets, TLC

VARIABLES
    \* ---- run_in_docker (executor.py), one call at a time ----
    e_pc,          \* position inside run_in_docker
    e_args,        \* the arguments of the call in progress
    e_container,   \* the local `container`: <<>> is None, <<id>> a handle
    e_exc,         \* the exception being handled ("none" when there is none)
    e_ret,         \* the value the return statement has chosen
    e_execs,       \* the exec_run calls made by this call, in order
    e_main,        \* the text uploaded as main source, <<"<unset>">> before
    daemon,        \* the containers that exist in the docker daemon
    \* ---- one request to app.py ----
    pc,            \* position of the request handler
    req,           \* the request
    testcases,     \* the fetched test cases
    problem_time_limit, \* local `problem_time_limit`: <<>> is None
    passed,        \* local `passed`
    tests,         \* local `tests`
    verdict,       \* local `verdict`
    overall_error, \* local `overall_error`
    submission_id, \* local `submission_id`
    compile_result,\* local `compile_result`
    runs,          \* the ExecutionResults of the Phase-2 calls, in order
    exit_codes,    \* the exit code of the run exec of each of these calls:
                   \* <<code>>, or <<>> when the call did not get that far
    gate,          \* what the deployment validator returned, if called
    events,        \* what the grader of /submit has done so far, in order
    response,      \* the response sent
    \* ---- repository and configuration ----
    submissions,   \* rows of table submissions, in insertion order
    submission_testcases, \* rows of table submission_testcases
    ENABLE_DEPLOYMENT_VALIDATION,
    \* ---- one call of validate_files (app.py) ----
    v_files,       \* the argument `files`
    v_result,      \* the pair returned, <<"<unset>">> before the call
    \* ---- one output comparison of the test loop (app.py) ----
    c_output,      \* result.output
    c_expected,    \* expected
    c_status,      \* test_status of the pair, "none" before it is computed
    c_before,      \* test_status of the pair before it was rewritten
    c_rewrite,     \* how the pair was rewritten
    \* ---- the persistence of several /submit requests at once ----
    s_pc,          \* position of each request
    s_tests,       \* local `tests` of each request: the test statuses
    s_lastrowid,   \* cur.lastrowid of the connection of each request
    s_sid,         \* local `submission_id` of each request, 0 is None
    s_i,           \* how many per-test rows each request has inserted
    \* ---- the two test loops side by side ----
    q_testcases,   \* the test cases both loops run
    q_submit,      \* passed, tests, overall_error of the loop of /submit
    q_run,         \* passed, tests, overall_error of the loop of /run
    \* ---- a request on its way through the decorators of a route ----
    k_pc,          \* position: limiter, login, view, done
    k_req,         \* endpoint, token and remote address of the request
    k_user,        \* g.current_user: <<"<unset>">>, None or a users row
    k_key,         \* the key the limit was counted under, None before
    \* ---- threads calling get_conn on the shared pool handle ----
    p_pool,        \* the global _cnxpool: 0 is None, n is the n-th pool
    p_count,       \* how many pools have been constructed
    p_failures,    \* how many calls failed because of the database server
    p_thread       \* per thread: position, create_pool caller and attempt,
                   \* the pool of the connection it holds (0: none)

evars == <<e_pc, e_args, e_container, e_exc, e_ret, e_execs, e_main, daemon>>
gvars == <<pc, req, testcases, problem_time_limit, passed, tests, verdict, overall_error,
           submission_id, compile_result, runs, exit_codes, gate, events,
           response>>
dvars == <<submissions, submission_testcases, ENABLE_DEPLOYMENT_VALIDATION>>
vvars == <<v_files, v_result>>
cvars == <<c_output, c_expected, c_status, c_before, c_rewrite>>
svars == <<s_pc, s_tests, s_lastrowid, s_sid, s_i>>
qvars == <<q_testcases, q_submit, q_run>>
kvars == <<k_pc, k_req, k_user, k_key>>
pvars == <<p_pool, p_count, p_failures, p_thread>>
fvars == <<vvars, cvars, svars, qvars, kvars, pvars>>
vars == <<evars, gvars, dvars, fvars>>

----------------------------------------------------------------------------
(* Bounds *)

MaxTests == 2
\* the longest output text of the comparisons
MaxLen == 5

----------------------------------------------------------------------------
(* Texts *)

\* Python None where a str is expected; no text equals it
None == <<"<None>">>

\* Python truthiness of an Optional[str]
Truthy(t) == t # None /\ t # <<>>

\* Python `s in t` for strings
SubText(s, t) ==
    \E k \in 1..(Len(t) - Len(s) + 1) : SubSeq(t, k, k + Len(s) - 1) = s

Whitespace == {" ", "\n", "\r", "\t"}

RECURSIVE LStrip(_)
LStrip(t) ==
    IF t # <<>> /\ Head(t) \in Whitespace THEN LStrip(Tail(t)) ELSE t

RECURSIVE RStrip(_)
RStrip(t) ==
    IF t # <<>> /\ t[Len(t)] \in Whitespace
    THEN RStrip(SubSeq(t, 1, Len(t) - 1)) ELSE t

\* str.strip()
Strip(t) == RStrip(LStrip(t))

\* str.replace('\r\n', '\n')
RECURSIVE ReplaceCRLF(_)
ReplaceCRLF(t) ==
    IF t = <<>> THEN <<>>
    ELSE IF Len(t) >= 2 /\ t[1] = "\r" /\ t[2] = "\n"
         THEN <<"\n">> \o ReplaceCRLF(SubSeq(t, 3, Len(t)))
         ELSE <<t[1]>> \o ReplaceCRLF(Tail(t))

\* the normalisation without the replace()
Clean_NoReplace(t) == Strip(t)

\* output.strip().replace('\r\n', '\n')
Clean(t) == ReplaceCRLF(Strip(t))

TLE_TEXT == <<"Time Limit Exceeded">>
MLE_TEXT == <<"Memory Limit Exceeded">>
HIDDEN == <<"[Hidden]">>

----------------------------------------------------------------------------
(* config.py *)

RUN_TIMEOUT == 30
MIN_SECURITY_SCORE == 80

----------------------------------------------------------------------------
(* executor.py *)

\* ExecutionResult.__init__ with its defaults made explicit by the callers
ExecutionResult(success, output, error, compiled) ==
    [success |-> success, output |-> output, error |-> error,
     compiled |-> compiled]

\* compile |-> "" is Python None
get_docker_config(language) ==
    CASE language = "java" ->
           [image |-> "eclipse-temurin:17-jdk-jammy", filename |-> "Main.java",
            compile |-> "javac -d /app Main.java",
            run |-> "java -cp .:/app -XX:MaxRAM=256m Main"]
      [] language = "python" ->
           [image |-> "python:3.11-slim", filename |-> "app.py",
            compile |-> "", run |-> "python -B -E -S app.py"]
      [] language = "c" ->
           [image |-> "gcc:11", filename |-> "main.c",
            compile |-> "gcc -O2 -std=c11 -o /app/main main.c -lm",
            run |-> "/app/main"]
      [] language = "cpp" ->
           [image |-> "gcc:11", filename |-> "main.cpp",
            compile |-> "g++ -O2 -std=c++17 -o /app/main main.cpp -lm",
            run |-> "/app/main"]
      [] language = "javascript" ->
           [image |-> "node:18-slim", filename |-> "index.js",
            compile |-> "", run |-> "node --max-old-space-size=256 index.js"]
      [] language = "csharp" ->
           [image |-> "mcr.microsoft.com/dotnet/sdk:7.0",
            filename |-> "Submission.cs",
            compile |-> "dotnet new console && dotnet build",
            run |-> "/app/build/app"]
      [] OTHER -> [image |-> "", filename |-> "", compile |-> "", run |-> ""]

ConfiguredLanguages ==
    {"java", "python", "c", "cpp", "javascript", "csharp"}

HasCompile(language) == get_docker_config(language).compile # ""

\* the return statement of `if not config`
UnsupportedResult(language) ==
    ExecutionResult(FALSE, <<>>, <<"Unsupported language: ", language>>, TRUE)

\* the return statement of `if compile_res.exit_code != 0`
CompileFailure(compile_output) ==
    ExecutionResult(FALSE, <<>>, compile_output, FALSE)

\* `error_msg` with the override by exit code left out of effect whenever
\* the program wrote to stderr
ErrorMsg_StderrFirst(exit_code, stderr) ==
    IF stderr # <<>> THEN stderr
    ELSE IF exit_code = 124 THEN TLE_TEXT
    ELSE IF exit_code = 137 THEN MLE_TEXT
    ELSE <<"Runtime Error (Exit Code ", ToString(exit_code), ")">>

\* `error_msg` of a run that exited with a non-zero code
ErrorMsg(exit_code, stderr) ==
    IF exit_code = 124 THEN TLE_TEXT
    ELSE IF exit_code = 137 THEN MLE_TEXT
    ELSE IF stderr # <<>> THEN stderr
    ELSE <<"Runtime Error (Exit Code ", ToString(exit_code), ")">>

\* the two return statements after the run exec
ClassifyRun(exit_code, stdout, stderr) ==
    IF exit_code # 0
    THEN ExecutionResult(FALSE, stdout, ErrorMsg(exit_code, stderr), TRUE)
    ELSE ExecutionResult(TRUE, stdout, <<>>, TRUE)

\* except docker.errors.ImageNotFound
ImageNotFoundResult(language) ==
    ExecutionResult(FALSE, <<>>,
        <<"System Error: Docker image ", get_docker_config(language).image,
          " not found. Check environment setup.">>, TRUE)

\* except Exception
InternalErrorResult ==
    ExecutionResult(FALSE, <<>>,
        <<"Internal Error", " (IE): Execution failed due to a critical system error. Please try again.">>,
        TRUE)

----------------------------------------------------------------------------
(* run_in_docker, statement by statement.  Every call of the docker client  *)
(* may raise; what the daemon does is chosen nondeterministically.          *)

EngineLanguages == {"python", "cpp", "ruby"}
EngineFileSets ==
    { <<[name |-> "app.py", content |-> <<"src">>]>>,
      <<[name |-> "x.txt", content |-> <<"other">>],
        [name |-> "main.cpp", content |-> <<"src">>]>>,
      <<[name |-> "x.txt", content |-> <<"other">>],
        [name |-> "app.py", content |-> <<>>]>>,
      <<>> }
EngineStdins == {<<>>, <<"in">>}
\* Optional[int]: <<>> is None (a NULL time_limit column)
EngineTimeLimits == {<<>>, <<RUN_TIMEOUT>>}
ExitCodes == {0, 1, 124, 137}
EngineStdouts == {<<>>, <<"out">>}
EngineStderrs == {<<>>, <<"err">>}
CompileOutputs == {<<>>, <<"error: expected ';'">>}

UNSET == <<"<unset>">>

\* code_files.get(name): <<TRUE, content>> or <<FALSE, None>>
FilesGet(files, name) ==
    IF \E i \in DOMAIN files : files[i].name = name
    THEN (LET i == CHOOSE j \in DOMAIN files : files[j].name = name
          IN files[i].content)
    ELSE None

\* code_files.get(target_filename) or list(code_files.values())[0];
\* defined when it does not raise IndexError
MainCodeRaises(files, name) ==
    ~Truthy(FilesGet(files, name)) /\ files = <<>>
MainCode(files, name) ==
    IF Truthy(FilesGet(files, name)) THEN FilesGet(files, name)
    ELSE files[1].content

EngineInit ==
    /\ e_pc = "idle"
    /\ e_args = [files |-> <<>>, language |-> "", stdin_data |-> <<>>,
                 time_limit |-> <<>>]
    /\ e_container = <<>>
    /\ e_exc = "none"
    /\ e_ret = [kind |-> "none"]
    /\ e_execs = <<>>
    /\ e_main = UNSET
    /\ daemon = {}

\* an exception raised inside the try block: the matching except clause
\* chooses the return value, then the finally block runs
Raise(exc) ==
    /\ e_exc' = exc
    /\ e_ret' = IF exc = "ImageNotFound"
                THEN ImageNotFoundResult(e_args.language)
                ELSE InternalErrorResult
    /\ e_pc' = "finally"

\* a return statement inside the try block
Return(result) ==
    /\ e_ret' = result
    /\ e_pc' = "finally"
    /\ UNCHANGED e_exc

\* def run_in_docker(...) up to `try:`
EngineCall ==
    /\ e_pc = "idle"
    /\ \E files \in EngineFileSets, language \in EngineLanguages,
          stdin_data \in EngineStdins, time_limit \in EngineTimeLimits :
         /\ e_args' = [files |-> files, language |-> language,
                       stdin_data |-> stdin_data, time_limit |-> time_limit]
         /\ IF language \notin ConfiguredLanguages
            THEN /\ e_ret' = UnsupportedResult(language)
                 /\ e_pc' = "returned"
            ELSE IF time_limit = <<>>
            THEN \* time_limit + 10 raises TypeError before the try block
                 /\ e_ret' = [kind |-> "raised"]
                 /\ e_pc' = "raised"
            ELSE /\ e_pc' = "from_env"
                 /\ UNCHANGED e_ret
    /\ UNCHANGED <<e_container, e_exc, e_execs, e_main, daemon>>
    /\ UNCHANGED <<gvars, dvars, fvars>>

\* client = docker.from_env(timeout=30)
FromEnv ==
    /\ e_pc = "from_env"
    /\ \/ e_pc' = "containers_run" /\ UNCHANGED <<e_exc, e_ret>>
       \/ Raise("Exception")
    /\ UNCHANGED <<e_args, e_container, e_execs, e_main, daemon>>
    /\ UNCHANGED <<gvars, dvars, fvars>>

NewContainer == Cardinality(daemon) + 1

\* container = client.containers.run(..., detach=True)
ContainersRun ==
    /\ e_pc = "containers_run"
    /\ \/ /\ e_container' = <<NewContainer>>
          /\ daemon' = daemon \cup {NewContainer}
          /\ e_pc' = "mkdir"
          /\ UNCHANGED <<e_exc, e_ret>>
       \/ /\ Raise("ImageNotFound")
          /\ UNCHANGED <<e_container, daemon>>
       \/ /\ Raise("Exception")
          /\ UNCHANGED <<e_container, daemon>>
    /\ UNCHANGED <<e_args, e_execs, e_main>>
    /\ UNCHANGED <<gvars, dvars, fvars>>

\* container.exec_run("mkdir -p /app", ...)
ExecMkdir ==
    /\ e_pc = "mkdir"
    /\ \/ /\ e_execs' = Append(e_execs, [kind |-> "mkdir", timeout |-> FALSE])
          /\ e_pc' = "copy_main"
          /\ UNCHANGED <<e_exc, e_ret>>
       \/ Raise("Exception") /\ UNCHANGED e_execs
    /\ UNCHANGED <<e_args, e_container, e_main, daemon>>
    /\ UNCHANGED <<gvars, dvars, fvars>>

\* main_code = ...; copy_to_container(container, main_code, ...)
CopyMain ==
    /\ e_pc = "copy_main"
    /\ LET name == get_docker_config(e_args.language).filename IN
       IF MainCodeRaises(e_args.files, name)
       THEN Raise("Exception") /\ UNCHANGED e_main
       ELSE \/ /\ e_main' = MainCode(e_args.files, name)
               /\ e_pc' = IF e_args.stdin_data # <<>> THEN "copy_stdin"
                          ELSE "compile"
               /\ UNCHANGED <<e_exc, e_ret>>
            \/ Raise("Exception") /\ UNCHANGED e_main
    /\ UNCHANGED <<e_args, e_container, e_execs, daemon>>
    /\ UNCHANGED <<gvars, dvars, fvars>>

\* if stdin_data: copy_to_container(container, stdin_data, "/app/stdin.txt")
CopyStdin ==
    /\ e_pc = "copy_stdin"
    /\ \/ e_pc' = "compile" /\ UNCHANGED <<e_exc, e_ret>>
       \/ Raise("Exception")
    /\ UNCHANGED <<e_args, e_container, e_execs, e_main, daemon>>
    /\ UNCHANGED <<gvars, dvars, fvars>>

\* if config["compile"]: compile_res = container.exec_run(...)
Compile ==
    /\ e_pc = "compile"
    /\ IF ~HasCompile(e_args.language)
       THEN /\ e_pc' = "chmod"
            /\ UNCHANGED <<e_exc, e_ret, e_execs>>
       ELSE \/ \E exit_code \in {0, 1}, output \in CompileOutputs :
                 /\ e_execs' = Append(e_execs,
                                  [kind |-> "compile", timeout |-> FALSE])
                 /\ IF exit_code # 0
                    THEN Return(CompileFailure(output))
                    ELSE e_pc' = "chmod" /\ UNCHANGED <<e_exc, e_ret>>
            \/ Raise("Exception") /\ UNCHANGED e_execs
    /\ UNCHANGED <<e_args, e_container, e_main, daemon>>
    /\ UNCHANGED <<gvars, dvars, fvars>>

\* if language in ['c', 'cpp']: container.exec_run("chmod +x /app/main", ...)
Chmod ==
    /\ e_pc = "chmod"
    /\ IF e_args.language \notin {"c", "cpp"}
       THEN /\ e_pc' = "run"
            /\ UNCHANGED <<e_exc, e_ret, e_execs>>
       ELSE \/ /\ e_execs' = Append(e_execs,
                                [kind |-> "chmod", timeout |-> FALSE])
               /\ e_pc' = "run"
               /\ UNCHANGED <<e_exc, e_ret>>
            \/ Raise("Exception") /\ UNCHANGED e_execs
    /\ UNCHANGED <<e_args, e_container, e_main, daemon>>
    /\ UNCHANGED <<gvars, dvars, fvars>>

\* exec_res = container.exec_run(f"sh -c '{full_cmd}'", ...) and the
\* classification of its exit code
RunExec ==
    /\ e_pc = "run"
    /\ \/ \E exit_code \in ExitCodes, stdout \in EngineStdouts,
             stderr \in EngineStderrs :
             /\ e_execs' = Append(e_execs,
                              [kind |-> "run", timeout |-> TRUE,
                               exit_code |-> exit_code, stdout |-> stdout,
                               stderr |-> stderr])
             /\ Return(ClassifyRun(exit_code, stdout, stderr))
       \/ Raise("Exception") /\ UNCHANGED e_execs
    /\ UNCHANGED <<e_args, e_container, e_main, daemon>>
    /\ UNCHANGED <<gvars, dvars, fvars>>

\* finally: if container: try container.remove(force=True) except: log
Finally ==
    /\ e_pc = "finally"
    /\ IF e_container = <<>>
       THEN UNCHANGED daemon
       ELSE \/ daemon' = daemon \ {e_container[1]}
            \/ \* remove raises; the exception is logged and dropped
               UNCHANGED daemon
    /\ e_pc' = "returned"
    /\ UNCHANGED <<e_args, e_container, e_exc, e_ret, e_execs, e_main>>
    /\ UNCHANGED <<gvars, dvars, fvars>>

EngineNext ==
    \/ EngineCall
    \/ FromEnv
    \/ ContainersRun
    \/ ExecMkdir
    \/ CopyMain
    \/ CopyStdin
    \/ Compile
    \/ Chmod
    \/ RunExec
    \/ Finally

\* every way a call run_in_docker(files, language, stdin) of a configured
\* language can end, over all outcomes of the driver calls: the
\* ExecutionResult returned, and how many times the call executed the
\* compile command and the run command.  observations are the
\* <<exit_code, stdout, stderr>> the run exec can give
Outcome(result, compiles, exit_code) ==
    [result |-> result, compiles |-> compiles, runs |-> Len(exit_code),
     exit_code |-> exit_code]
CompilesOf(language) == IF HasCompile(language) THEN 1 ELSE 0
EngineOutcomes(language, observations) ==
    {Outcome(ImageNotFoundResult(language), 0, <<>>)}
    \cup {Outcome(InternalErrorResult, c, <<>>) : c \in 0..CompilesOf(language)}
    \cup (IF HasCompile(language)
          THEN {Outcome(CompileFailure(o), 1, <<>>) : o \in CompileOutputs}
          ELSE {})
    \cup {Outcome(ClassifyRun(o[1], o[2], o[3]), CompilesOf(language), <<o[1]>>) :
             o \in observations}
EngineResults(language, observations) ==
    {o.result : o \in EngineOutcomes(language, observations)}

----------------------------------------------------------------------------
(* app.py: request validation *)

VALID_LANGUAGES == {"java", "python", "c", "cpp", "javascript", "csharp"}
MAX_FILE_SIZE == 50000
MAX_TOTAL_FILES_SIZE == 200000
MaxFiles == 10

\* file names are strings; Chars gives the characters of the names that
\* occur in the requests modelled
Chars(name) ==
    CASE name = "app.py" -> <<"a", "p", "p", ".", "p", "y">>
      [] name = "app.py\n" -> <<"a", "p", "p", ".", "p", "y", "\n">>
      [] name = "main.cpp" -> <<"m", "a", "i", "n", ".", "c", "p", "p">>
      [] name = "Main_1-a.java" ->
            <<"M", "a", "i", "n", "_", "1", "-", "a", ".", "j", "a", "v", "a">>
      [] name = "run.sh" -> <<"r", "u", "n", ".", "s", "h">>
      [] name = "run.sh\n" -> <<"r", "u", "n", ".", "s", "h", "\n">>
      [] name = "x.shy" -> <<"x", ".", "s", "h", "y">>
      [] name = "a..b.py" -> <<"a", ".", ".", "b", ".", "p", "y">>
      [] name = "../x.py" -> <<".", ".", "/", "x", ".", "p", "y">>
      [] name = "/etc.py" -> <<"/", "e", "t", "c", ".", "p", "y">>
      [] name = "~x.py" -> <<"~", "x", ".", "p", "y">>
      [] name = "a b.py" -> <<"a", " ", "b", ".", "p", "y">>
      [] name = "x.pyc" -> <<"x", ".", "p", "y", "c">>
      [] name = "x.class" -> <<"x", ".", "c", "l", "a", "s", "s">>
      [] name = "x.exe" -> <<"x", ".", "e", "x", "e">>
      [] name = "x.dll" -> <<"x", ".", "d", "l", "l">>
      [] name = "x.so" -> <<"x", ".", "s", "o">>
      [] name = "" -> <<>>
      [] name = "a.py" -> <<"a", ".", "p", "y">>
      [] name = "b.py" -> <<"b", ".", "p", "y">>
      [] name = "c.py" -> <<"c", ".", "p", "y">>
      [] name = "d.py" -> <<"d", ".", "p", "y">>
      [] name = "e.py" -> <<"e", ".", "p", "y">>
      [] name = "f.py" -> <<"f", ".", "p", "y">>
      [] name = "g.py" -> <<"g", ".", "p", "y">>
      [] name = "h.py" -> <<"h", ".", "p", "y">>
      [] name = "i.py" -> <<"i", ".", "p", "y">>
      [] name = "j.py" -> <<"j", ".", "p", "y">>
      [] name = "k.py" -> <<"k", ".", "p", "y">>

\* the character class [a-zA-Z0-9_.-]
ClassChars ==
    {"a", "b", "c", "d", "e", "f", "g", "h", "i", "j", "k", "l", "m", "n",
     "o", "p", "q", "r", "s", "t", "u", "v", "w", "x", "y", "z",
     "A", "B", "C", "D", "E", "F", "G", "H", "I", "J", "K", "L", "M", "N",
     "O", "P", "Q", "R", "S", "T", "U", "V", "W", "X", "Y", "Z",
     "0", "1", "2", "3", "4", "5", "6", "7", "8", "9", "_", ".", "-"}

\* where `$` of a Python regular expression matches: at the end of the
\* string and before a newline that is its last character
BeforeDollar(cs) ==
    {cs} \cup (IF cs # <<>> /\ cs[Len(cs)] = "\n"
               THEN {SubSeq(cs, 1, Len(cs) - 1)} ELSE {})
EndsWith(cs, suffix) ==
    /\ Len(cs) >= Len(suffix)
    /\ SubSeq(cs, Len(cs) - Len(suffix) + 1, Len(cs)) = suffix

\* VALID_FILENAME_PATTERN.match(fname), the pattern ^[a-zA-Z0-9_.-]+$
ValidFilename(name) ==
    \E body \in BeforeDollar(Chars(name)) :
       /\ body # <<>>
       /\ \A i \in DOMAIN body : body[i] \in ClassChars

\* the suffixes of FORBIDDEN_PATTERNS
ForbiddenSuffixes ==
    { <<".", "p", "y", "c">>, <<".", "c", "l", "a", "s", "s">>,
      <<".", "e", "x", "e">>, <<".", "d", "l", "l">>, <<".", "s", "o">>,
      <<".", "s", "h">> }

\* any(re.search(pattern, fname) for pattern in FORBIDDEN_PATTERNS)
ForbiddenFilename(name) ==
    LET cs == Chars(name) IN
    \/ \E i \in 1..(Len(cs) - 1) : cs[i] = "." /\ cs[i + 1] = "."
    \/ cs # <<>> /\ cs[1] \in {"/", "~"}
    \/ \E suffix \in ForbiddenSuffixes, body \in BeforeDollar(cs) :
          EndsWith(body, suffix)

\* a file is [name, content, size]: size is len(content.encode('utf-8'))
RECURSIVE TotalSize(_)
TotalSize(files) ==
    IF files = <<>> THEN 0 ELSE files[1].size + TotalSize(Tail(files))

\* validate_files: <<is_valid, error_msg>>
validate_files(files) ==
    IF Len(files) = 0 THEN <<FALSE, "No files provided">>
    ELSE IF Len(files) > MaxFiles THEN <<FALSE, "Too many files (maximum 10)">>
    ELSE IF \E i \in DOMAIN files :
                 \/ ~ValidFilename(files[i].name)
                 \/ ForbiddenFilename(files[i].name)
                 \/ files[i].size > MAX_FILE_SIZE
    THEN LET i == CHOOSE j \in DOMAIN files :
                    /\ \/ ~ValidFilename(files[j].name)
                       \/ ForbiddenFilename(files[j].name)
                       \/ files[j].size > MAX_FILE_SIZE
                    /\ \A k \in 1..(j - 1) :
                          /\ ValidFilename(files[k].name)
                          /\ ~ForbiddenFilename(files[k].name)
                          /\ files[k].size <= MAX_FILE_SIZE
         IN IF ~ValidFilename(files[i].name) THEN <<FALSE, "Invalid filename">>
            ELSE IF ForbiddenFilename(files[i].name)
            THEN <<FALSE, "Forbidden filename pattern">>
            ELSE <<FALSE, "File too large">>
    ELSE IF TotalSize(files) > MAX_TOTAL_FILES_SIZE
    THEN <<FALSE, "Total files size too large">>
    ELSE <<TRUE, "">>

\* html.escape on one atom
EscapeAtom(a) ==
    CASE a = "&" -> "&amp;"
      [] a = "<" -> "&lt;"
      [] a = ">" -> "&gt;"
      [] a = "\"" -> "&quot;"
      [] a = "'" -> "&#x27;"
      [] OTHER -> a

\* sanitize_input (the inputs modelled are shorter than MAX_INPUT_LENGTH)
sanitize_input(text) ==
    IF ~Truthy(text) THEN <<>>
    ELSE [i \in DOMAIN text |-> EscapeAtom(text[i])]

----------------------------------------------------------------------------
(* The requests and the problems of the store *)

File(name, size) == [name |-> name, content |-> <<"src">>, size |-> size]

RequestFiles ==
    { <<File("app.py", MAX_FILE_SIZE)>>,
      <<>>,
      <<File("../x.py", 10)>>,
      <<File("app.py", MAX_FILE_SIZE + 1)>> }
RequestLanguages == {"python", "cpp", "ruby"}
\* Authorization header: absent, a token that does not verify, a token of a
\* user that is gone, a valid token, and a failing users lookup
AuthCases == {"no_header", "bad_token", "no_user", "ok", "db_error"}
\* problem_slug: absent, of no public problem, of a problem
SlugCases == {"none", "missing", "found"}
\* /api/run treats every request without a valid token of a user alike
RunAuthCases == {"no_header", "ok", "db_error"}
RequestStdins == {<<>>, <<"<", "in">>}

USER_ID == 1
PROBLEM_ID == 7

\* a row of table testcases
TestCase(i, hidden) ==
    [id |-> 10 + i,
     input_text |-> <<"in", ToString(i)>>,
     expected_output |-> <<"a", "\r", "\n", ToString(i)>>,
     is_hidden |-> hidden,
     execution_order |-> i]

\* the test case lists fetch_problem_by_slug can attach: rows in
\* (execution_order, id) order
TestCaseLists ==
    UNION { [1..n -> BOOLEAN] : n \in 0..MaxTests }
\* the SELECT without its ORDER BY: the rows come back in another order
FetchedTestcases_Unordered(flags) ==
    [i \in DOMAIN flags |-> TestCase(Len(flags) + 1 - i, flags[i])]

FetchedTestcases(flags) ==
    [i \in DOMAIN flags |-> TestCase(i, flags[i])]
\* time_limit column: <<>> is NULL
ProblemTimeLimits == {<<2>>, <<>>}

\* what the run exec of the submitted program can give for a test case:
\* <<exit_code, stdout, stderr>>
PassingOutput(tc) == <<" ", "a", "\n", ToString(tc.execution_order), "\n">>
TestObservations(tc) ==
    { <<0, PassingOutput(tc), <<>>>>,
      <<0, PassingOutput(tc), tc.input_text>>,
      <<0, tc.input_text, <<>>>>,
      <<1, <<>>, <<>>>>,
      <<1, <<>>, tc.input_text>>,
      <<1, PassingOutput(tc), <<"fake ", "Time Limit Exceeded">>>>,
      <<124, <<>>, <<>>>>,
      <<124, <<>>, tc.input_text>>,
      <<137, tc.input_text, <<"Killed">>>> }
\* ... for the Phase-1 call and the single runs, which have no test case
PlainObservations ==
    { <<0, <<"out">>, <<>>>>, <<1, <<>>, <<"err">>>>, <<1, <<>>, <<>>>>,
      <<124, <<>>, <<>>>>, <<137, <<>>, <<>>>> }
Phase1Observations == { <<0, <<>>, <<>>>>, <<1, <<>>, <<"err">>>> }

----------------------------------------------------------------------------
(* db.py: the two tables written by grading *)

\* the INSERT with the values of passed and total in each other's place
SubmissionRow_CountsSwapped(id, uid, pid, code, lang, v, p, total, err) ==
    [id |-> id, user_id |-> uid, problem_id |-> pid,
     code |-> code, language |-> lang, verdict |-> v, passed |-> total,
     total |-> p, error_message |-> err]

\* store_submission: the row inserted; cur.lastrowid is its id
SubmissionRow(id, uid, pid, code, lang, v, p, total, err) ==
    [id |-> id, user_id |-> uid, problem_id |-> pid,
     code |-> code, language |-> lang, verdict |-> v, passed |-> p,
     total |-> total, error_message |-> err]
LastRowId == Len(submissions) + 1

\* store_submission_testcase: the row inserted
TestcaseRow(sid, testcase_id, status, output, err) ==
    [submission_id |-> sid, testcase_id |-> testcase_id, status |-> status,
     output |-> output, error_message |-> err]

\* the rows of one submission, in insertion order
RowsOf(sid) ==
    SelectSeq(submission_testcases, LAMBDA r : r.submission_id = sid)

----------------------------------------------------------------------------
(* app.py: grading *)

\* test_status taken from the comparison alone, whatever the engine error
TestStatus_OutputOnly(result, expected) ==
    IF Clean(result.output) = Clean(expected) THEN "PASS" ELSE "FAIL"

\* test_status of one iteration of the test loop
TestStatus(result, expected) ==
    IF result.error # <<>> THEN "RE"
    ELSE IF Clean(result.output) = Clean(expected) THEN "PASS"
    ELSE "FAIL"

\* test_error of one iteration
TestError(result) == IF result.error # <<>> THEN result.error ELSE None

\* `if not overall_error: overall_error = test_error`
NextOverallError(err, result) ==
    IF result.error # <<>> /\ ~Truthy(err) THEN result.error ELSE err

\* the verdict update without the test on test_status: a passing test is
\* classified like a failing one
NextVerdict_ClassifiesPass(v, status, result) ==
    IF v # "AC" THEN v
    ELSE IF SubText(TLE_TEXT, result.error) THEN "TLE"
    ELSE IF SubText(MLE_TEXT, result.error) THEN "MLE"
    ELSE IF status = "RE" THEN "RE"
    ELSE "WA"

\* the verdict update without `if verdict == "AC"`: the last non-passing
\* test decides
NextVerdict_LastFailureWins(v, status, result) ==
    IF status = "PASS" THEN v
    ELSE IF SubText(TLE_TEXT, result.error) THEN "TLE"
    ELSE IF SubText(MLE_TEXT, result.error) THEN "MLE"
    ELSE IF status = "RE" THEN "RE"
    ELSE "WA"

\* the verdict update of _run_tests_for_submission_with_storage
NextVerdict(v, status, result) ==
    IF status = "PASS" \/ v # "AC" THEN v
    ELSE IF SubText(TLE_TEXT, result.error) THEN "TLE"
    ELSE IF SubText(MLE_TEXT, result.error) THEN "MLE"
    ELSE IF status = "RE" THEN "RE"
    ELSE "WA"

\* the dict with the output of a hidden test left as captured
StoredTestEntry_OutputShown(tc, result) ==
    [id |-> tc.id,
     input |-> IF ~tc.is_hidden THEN tc.input_text ELSE HIDDEN,
     expected |-> IF ~tc.is_hidden THEN tc.expected_output ELSE HIDDEN,
     output |-> result.output,
     status |-> IF result.error # <<>> THEN "RE"
                ELSE IF Clean(result.output) = Clean(tc.expected_output)
                THEN "PASS" ELSE "FAIL",
     error |-> IF result.error # <<>> THEN result.error ELSE None,
     is_hidden |-> tc.is_hidden]

\* the dict appended to tests by _run_tests_for_submission_with_storage
StoredTestEntry(tc, result) ==
    [id |-> tc.id,
     input |-> IF ~tc.is_hidden THEN tc.input_text ELSE HIDDEN,
     expected |-> IF ~tc.is_hidden THEN tc.expected_output ELSE HIDDEN,
     output |-> IF ~tc.is_hidden THEN result.output ELSE HIDDEN,
     status |-> TestStatus(result, tc.expected_output),
     error |-> TestError(result),
     is_hidden |-> tc.is_hidden]

\* test_status of one iteration of the loop of _run_tests_for_submission
RunTestStatus(result, expected) ==
    IF result.error # <<>> THEN "RE"
    ELSE IF Clean(result.output) = Clean(expected) THEN "PASS"
    ELSE "FAIL"

\* test_error of one iteration of that loop
RunTestError(result) == IF result.error # <<>> THEN result.error ELSE None

\* the top-level error overwritten by every failing test
RunNextOverallError_LastWins(err, result) ==
    IF result.error # <<>> THEN result.error ELSE err

\* `if not overall_error: overall_error = test_error` of that loop
RunNextOverallError(err, result) ==
    IF result.error # <<>> /\ ~Truthy(err) THEN result.error ELSE err

\* the dict appended to tests by _run_tests_for_submission
RunTestEntry(tc, result) ==
    [id |-> tc.id,
     input |-> tc.input_text,
     expected |-> tc.expected_output,
     output |-> result.output,
     status |-> RunTestStatus(result, tc.expected_output),
     error |-> RunTestError(result),
     is_hidden |-> tc.is_hidden]

\* the verdict computed at the end of _run_tests_for_submission
RunVerdict(p, total, err) ==
    IF p = total THEN "AC"
    ELSE IF Truthy(err) /\ SubText(TLE_TEXT, err) THEN "TLE"
    ELSE IF Truthy(err) /\ SubText(MLE_TEXT, err) THEN "MLE"
    ELSE IF Truthy(err) THEN "RE"
    ELSE "WA"

\* the tests-phase verdict taken as AC whatever the tests gave
FinalTestsVerdict_AlwaysAC(v, p, total) == "AC"

\* `if passed != total and verdict == "AC": verdict = "WA"`
FinalTestsVerdict(v, p, total) == IF p # total /\ v = "AC" THEN "WA" ELSE v

\* `if not deployment_success: verdict = "DEP"`
GateVerdict(v, d) == IF ~d[1] THEN "DEP" ELSE v

\* simulate_deployment_validation: <<deployment_success, deploy_message>>
\* for the two random draws
SecurityScores ==
    {MIN_SECURITY_SCORE - 10, MIN_SECURITY_SCORE - 1, MIN_SECURITY_SCORE, 100}
simulate_deployment_validation(critical, security_score) ==
    IF ~ENABLE_DEPLOYMENT_VALIDATION
    THEN <<TRUE, <<"Deployment validation skipped by configuration.">>>>
    ELSE IF critical
    THEN <<FALSE, <<"Critical dependency failed during security audit">>>>
    ELSE IF security_score < MIN_SECURITY_SCORE
    THEN <<FALSE, <<"Code failed static analysis (Security Score: ",
                    ToString(security_score), ")">>>>
    ELSE <<TRUE, <<"Deployment validation successful.">>>>

NoGate == <<"not called">>

\* `return jsonify({"error": msg})` without the status code
ErrorResponse_NoStatus(status, msg) == [status |-> 200, error |-> msg]

\* `return jsonify({"error": msg}), status`
ErrorResponse(status, msg) == [status |-> status, error |-> msg]

\* an entry of events: a call of the engine (kind "compile" for Phase 1,
\* "test" for the run of test case tc), the call of the validator ("gate")
\* or an INSERT ("store_submission", "store_testcase" of test case tc)
Event(kind, tc, compiles, execs) ==
    [kind |-> kind, tc |-> tc, compiles |-> compiles, runs |-> execs]

GraderInit ==
    /\ pc = "idle"
    /\ req = [endpoint |-> "none"]
    /\ testcases = <<>>
    /\ problem_time_limit = <<>>
    /\ passed = 0
    /\ tests = <<>>
    /\ verdict = "AC"
    /\ overall_error = None
    /\ submission_id = 0
    /\ compile_result = [kind |-> "none"]
    /\ runs = <<>>
    /\ exit_codes = <<>>
    /\ gate = NoGate
    /\ events = <<>>
    /\ response = [status |-> 0]

StoreInit ==
    /\ submissions = <<>>
    /\ submission_testcases = <<>>
    /\ ENABLE_DEPLOYMENT_VALIDATION \in BOOLEAN

\* c_rewrite: which rewriting was applied, and whether the line ending it
\* changed directly follows a "\r"
Rewrite(kind, after_cr) == [kind |-> kind, after_cr |-> after_cr]
NoRewrite == Rewrite("none", FALSE)

\* no call of validate_files and no comparison under way
ValidateInit ==
    /\ v_files = <<>>
    /\ v_result = UNSET
CompareInit ==
    /\ c_output = <<>>
    /\ c_expected = <<>>
    /\ c_status = "none"
    /\ c_before = "none"
    /\ c_rewrite = NoRewrite
\* no request persisting, no pair of loops and no request under way
PersistInit ==
    /\ s_pc = <<>>
    /\ s_tests = <<>>
    /\ s_lastrowid = <<>>
    /\ s_sid = <<>>
    /\ s_i = <<>>
\* the verdict of _run_tests_for_submission before its assignment at the
\* end of the function
NoVerdict == "unset"
LoopsInit ==
    /\ q_testcases = <<>>
    /\ q_submit = [passed |-> 0, tests |-> <<>>, overall_error |-> None,
                   verdict |-> "AC"]
    /\ q_run = [passed |-> 0, tests |-> <<>>, overall_error |-> None,
                verdict |-> NoVerdict]
RouteInit ==
    /\ k_pc = "none"
    /\ k_req = [endpoint |-> "none"]
    /\ k_user = UNSET
    /\ k_key = None
PoolInit ==
    /\ p_pool = 0
    /\ p_count = 0
    /\ p_failures = 0
    /\ p_thread = <<>>
FunctionsInit ==
    ValidateInit /\ CompareInit /\ PersistInit /\ LoopsInit /\ RouteInit /\ PoolInit

\* the handler ends with this response
Respond(r) ==
    /\ response' = r
    /\ pc' = "done"

\* an exception reaches the except clause of public_submit
SubmitFailure ==
    Respond(ErrorResponse(500, "Internal Submission System Failure (IE)"))

\* login_required and public_submit up to the call of the grader
public_submit ==
    /\ pc = "idle"
    /\ \E auth \in AuthCases, language \in RequestLanguages,
          slug \in SlugCases, files \in RequestFiles,
          flags \in TestCaseLists, tl \in ProblemTimeLimits,
          fetch_raises \in BOOLEAN :
         /\ req' = [endpoint |-> "submit", auth |-> auth,
                    language |-> language, problem_slug |-> slug,
                    files |-> files, stdin |-> <<>>]
         /\ IF auth = "no_header"
            THEN Respond(ErrorResponse(401, "Authentication required"))
                 /\ UNCHANGED <<testcases, problem_time_limit>>
            ELSE IF auth = "bad_token"
            THEN Respond(ErrorResponse(401, "Invalid or expired token"))
                 /\ UNCHANGED <<testcases, problem_time_limit>>
            ELSE IF auth = "db_error"
            THEN Respond(ErrorResponse(500, "Internal server error"))
                 /\ UNCHANGED <<testcases, problem_time_limit>>
            ELSE IF auth = "no_user"
            THEN Respond(ErrorResponse(401, "User not found"))
                 /\ UNCHANGED <<testcases, problem_time_limit>>
            ELSE IF language \notin VALID_LANGUAGES
            THEN Respond(ErrorResponse(400, "Unsupported language"))
                 /\ UNCHANGED <<testcases, problem_time_limit>>
            ELSE IF slug = "none"
            THEN Respond(ErrorResponse(400, "Problem slug is required"))
                 /\ UNCHANGED <<testcases, problem_time_limit>>
            ELSE IF ~validate_files(files)[1]
            THEN Respond(ErrorResponse(400, validate_files(files)[2]))
                 /\ UNCHANGED <<testcases, problem_time_limit>>
            ELSE IF fetch_raises
            THEN SubmitFailure /\ UNCHANGED <<testcases, problem_time_limit>>
            ELSE IF slug = "missing"
            THEN Respond(ErrorResponse(404, "Problem not found"))
                 /\ UNCHANGED <<testcases, problem_time_limit>>
            ELSE /\ testcases' = FetchedTestcases(flags)
                 /\ problem_time_limit' = tl
                 /\ pc' = IF flags = <<>> THEN "store_empty" ELSE "phase1"
                 /\ UNCHANGED response
    /\ UNCHANGED <<passed, tests, verdict, overall_error, submission_id,
                   compile_result, runs, exit_codes, gate>>
    /\ UNCHANGED events
    /\ UNCHANGED <<evars, dvars, fvars>>

\* the branch `if not testcases` answering AC without the INSERT
StoreEmpty_NoRow ==
    /\ pc = "store_empty"
    /\ Respond([status |-> 200, compiled |-> TRUE, passed |-> 0,
                total |-> 0, verdict |-> "AC", submission_id |-> None])
    /\ UNCHANGED <<req, testcases, problem_time_limit, passed, tests, verdict,
                   overall_error, compile_result, runs, exit_codes, gate, events,
                   submission_id>>
    /\ UNCHANGED <<evars, dvars, fvars>>

\* public_submit, `if not testcases`: store an AC submission and return
StoreEmpty ==
    /\ pc = "store_empty"
    /\ \/ /\ submissions' = Append(submissions,
                SubmissionRow(LastRowId, USER_ID, PROBLEM_ID, req.files,
                              req.language, "AC", 0, 0, None))
          /\ submission_id' = LastRowId
          /\ events' = Append(events, Event("store_submission", 0, 0, 0))
          /\ Respond([status |-> 200, compiled |-> TRUE, passed |-> 0,
                      total |-> 0, verdict |-> "AC",
                      submission_id |-> LastRowId])
       \/ /\ SubmitFailure
          /\ UNCHANGED <<submissions, submission_id, events>>
    /\ UNCHANGED <<req, testcases, problem_time_limit, passed, tests, verdict,
                   overall_error, compile_result, runs, exit_codes, gate>>
    /\ UNCHANGED <<evars, submission_testcases, ENABLE_DEPLOYMENT_VALIDATION,
                   fvars>>

\* PHASE 1: the compile call, and the storing of a CE submission
Phase1 ==
    /\ pc = "phase1"
    /\ req.endpoint = "submit"
    /\ IF problem_time_limit = <<>>
       THEN \* run_in_docker raises TypeError
            /\ SubmitFailure
            /\ UNCHANGED <<compile_result, submissions, submission_id, events>>
       ELSE \E o \in EngineOutcomes(req.language, Phase1Observations) :
            LET r == o.result
                call == Event("compile", 0, o.compiles, o.runs) IN
            /\ compile_result' = r
            /\ IF r.compiled
               THEN /\ pc' = "phase2"
                    /\ events' = Append(events, call)
                    /\ UNCHANGED <<response, submissions, submission_id>>
               ELSE \/ /\ submissions' = Append(submissions,
                             SubmissionRow(LastRowId, USER_ID, PROBLEM_ID,
                                 req.files, req.language, "CE", 0,
                                 Len(testcases), r.error))
                       /\ submission_id' = LastRowId
                       /\ events' = events \o
                             <<call, Event("store_submission", 0, 0, 0)>>
                       /\ Respond([status |-> 200, compiled |-> FALSE,
                                   compile_error |-> r.error, tests |-> <<>>,
                                   passed |-> 0, total |-> Len(testcases),
                                   verdict |-> "CE",
                                   submission_id |-> LastRowId])
                    \/ /\ SubmitFailure
                       /\ events' = Append(events, call)
                       /\ UNCHANGED <<submissions, submission_id>>
    /\ UNCHANGED <<req, testcases, problem_time_limit, passed, tests, verdict,
                   overall_error, runs, exit_codes, gate>>
    /\ UNCHANGED <<evars, submission_testcases, ENABLE_DEPLOYMENT_VALIDATION,
                   fvars>>

\* PHASE 2: one iteration of `for tc in testcases`
RunTest ==
    /\ pc = "phase2"
    /\ req.endpoint = "submit"
    /\ Len(tests) < Len(testcases)
    /\ LET tc == testcases[Len(tests) + 1] IN
       \E o \in EngineOutcomes(req.language, TestObservations(tc)) :
         LET result == o.result
             status == TestStatus(result, tc.expected_output) IN
         /\ runs' = Append(runs, result)
         /\ exit_codes' = Append(exit_codes, o.exit_code)
         /\ events' = Append(events, Event("test", tc.id, o.compiles, o.runs))
         /\ overall_error' = NextOverallError(overall_error, result)
         /\ passed' = IF status = "PASS" THEN passed + 1 ELSE passed
         /\ verdict' = NextVerdict(verdict, status, result)
         /\ tests' = Append(tests, StoredTestEntry(tc, result))
    /\ UNCHANGED <<pc, req, testcases, problem_time_limit, submission_id,
                   compile_result, gate, response>>
    /\ UNCHANGED <<evars, dvars, fvars>>

\* the final verdict and PHASE 3, the deployment gate
Phase3 ==
    /\ pc = "phase2"
    /\ req.endpoint = "submit"
    /\ Len(tests) = Len(testcases)
    /\ LET v == FinalTestsVerdict(verdict, passed, Len(testcases))
       IN IF ENABLE_DEPLOYMENT_VALIDATION /\ v = "AC"
          THEN \E critical \in BOOLEAN, score \in SecurityScores :
                 LET d == simulate_deployment_validation(critical, score) IN
                 /\ gate' = d
                 /\ events' = Append(events, Event("gate", 0, 0, 0))
                 /\ verdict' = GateVerdict(v, d)
                 /\ overall_error' = IF ~d[1] THEN d[2] ELSE overall_error
          ELSE /\ verdict' = v
               /\ UNCHANGED <<gate, overall_error, events>>
    /\ pc' = "store_submission"
    /\ UNCHANGED <<req, testcases, problem_time_limit, passed, tests, submission_id,
                   compile_result, runs, exit_codes, response>>
    /\ UNCHANGED <<evars, dvars, fvars>>

\* `if not submission_id: submission_id = store_submission(...)`
StoreSubmission ==
    /\ pc = "store_submission"
    /\ \/ /\ submissions' = Append(submissions,
                SubmissionRow(LastRowId, USER_ID, PROBLEM_ID, req.files,
                              req.language, verdict, passed, Len(testcases),
                              overall_error))
          /\ submission_id' = LastRowId
          /\ events' = Append(events, Event("store_submission", 0, 0, 0))
          /\ pc' = "store_testcases"
          /\ UNCHANGED response
       \/ /\ SubmitFailure
          /\ UNCHANGED <<submissions, submission_id, events>>
    /\ UNCHANGED <<req, testcases, problem_time_limit, passed, tests, verdict,
                   overall_error, compile_result, runs, exit_codes, gate>>
    /\ UNCHANGED <<evars, submission_testcases, ENABLE_DEPLOYMENT_VALIDATION,
                   fvars>>

\* one iteration of `for i, test in enumerate(tests)`
StoreTestcase ==
    /\ pc = "store_testcases"
    /\ Len(RowsOf(submission_id)) < Len(tests)
    /\ LET i == Len(RowsOf(submission_id)) + 1 IN
       \/ /\ submission_testcases' = Append(submission_testcases,
                TestcaseRow(submission_id, testcases[i].id, tests[i].status,
                            tests[i].output, tests[i].error))
          /\ events' = Append(events,
                          Event("store_testcase", testcases[i].id, 0, 0))
          /\ UNCHANGED <<pc, response>>
       \/ /\ SubmitFailure
          /\ UNCHANGED <<submission_testcases, events>>
    /\ UNCHANGED <<req, testcases, problem_time_limit, passed, tests, verdict,
                   overall_error, submission_id, compile_result, runs, exit_codes, gate>>
    /\ UNCHANGED <<evars, submissions, ENABLE_DEPLOYMENT_VALIDATION, fvars>>

\* the return statement of _run_tests_for_submission_with_storage
SubmitReturn ==
    /\ pc = "store_testcases"
    /\ Len(RowsOf(submission_id)) = Len(tests)
    /\ Respond([status |-> 200, compiled |-> TRUE, tests |-> tests,
                passed |-> passed, total |-> Len(testcases),
                verdict |-> verdict, error |-> overall_error,
                submission_id |-> submission_id])
    /\ UNCHANGED <<req, testcases, problem_time_limit, passed, tests, verdict,
                   overall_error, submission_id, compile_result, runs, exit_codes, gate>>
    /\ UNCHANGED events
    /\ UNCHANGED <<evars, dvars, fvars>>

----------------------------------------------------------------------------
(* app.py: /api/run and /api/problem/<slug> *)

\* an exception reaches the except clause of public_run_code
RunFailure ==
    Respond(ErrorResponse(500, "Internal Execution System Failure (IE)"))

\* the verdict expression of the single-run responses
SingleRunVerdict(result) ==
    IF result.error # <<>> /\ SubText(<<"Internal Error">>, result.error)
    THEN "IE"
    ELSE IF result.error # <<>> THEN "RE" ELSE "AC"

\* optional_login and public_run_code up to the first engine call
public_run_code ==
    /\ pc = "idle"
    /\ \E auth \in RunAuthCases, language \in RequestLanguages,
          slug \in SlugCases, files \in RequestFiles,
          stdin \in RequestStdins,
          flags \in TestCaseLists, tl \in ProblemTimeLimits,
          fetch_raises \in BOOLEAN :
         /\ req' = [endpoint |-> "run", auth |-> auth,
                    language |-> language, problem_slug |-> slug,
                    files |-> files, stdin |-> sanitize_input(stdin)]
         /\ IF auth = "db_error"
            THEN Respond(ErrorResponse(500, "Internal server error"))
                 /\ UNCHANGED <<testcases, problem_time_limit>>
            ELSE IF language \notin VALID_LANGUAGES
            THEN Respond(ErrorResponse(400, "Unsupported language"))
                 /\ UNCHANGED <<testcases, problem_time_limit>>
            ELSE IF ~validate_files(files)[1]
            THEN Respond(ErrorResponse(400, validate_files(files)[2]))
                 /\ UNCHANGED <<testcases, problem_time_limit>>
            ELSE IF slug # "none" /\ fetch_raises
            THEN RunFailure /\ UNCHANGED <<testcases, problem_time_limit>>
            ELSE /\ testcases' = IF slug = "found"
                                 THEN FetchedTestcases(flags) ELSE <<>>
                 /\ problem_time_limit' = IF slug = "found" THEN tl
                                          ELSE <<RUN_TIMEOUT>>
                 /\ pc' = IF sanitize_input(stdin) # <<>> \/ slug # "found"
                          THEN "run_single" ELSE "run_phase1"
                 /\ UNCHANGED response
    /\ UNCHANGED <<passed, tests, verdict, overall_error, submission_id,
                   compile_result, runs, exit_codes, gate>>
    /\ UNCHANGED events
    /\ UNCHANGED <<evars, dvars, fvars>>

\* the two single-run branches of public_run_code
RunSingle ==
    /\ pc = "run_single"
    /\ IF problem_time_limit = <<>>
       THEN RunFailure /\ UNCHANGED <<runs, exit_codes>>
       ELSE \E o \in EngineOutcomes(req.language, PlainObservations) :
              LET result == o.result IN
              /\ runs' = Append(runs, result)
              /\ exit_codes' = Append(exit_codes, o.exit_code)
              /\ Respond([status |-> 200, compiled |-> result.compiled,
                          output |-> result.output, error |-> result.error,
                          verdict |-> SingleRunVerdict(result)])
    /\ UNCHANGED <<req, testcases, problem_time_limit, passed, tests, verdict,
                   overall_error, submission_id, compile_result, gate>>
    /\ UNCHANGED events
    /\ UNCHANGED <<evars, dvars, fvars>>

\* _run_tests_for_submission up to the test loop
RunPhase1 ==
    /\ pc = "run_phase1"
    /\ IF testcases = <<>>
       THEN /\ Respond([status |-> 200, compiled |-> TRUE, tests |-> <<>>,
                        passed |-> 0, total |-> 0, verdict |-> "AC"])
            /\ UNCHANGED compile_result
       ELSE IF problem_time_limit = <<>>
       THEN RunFailure /\ UNCHANGED compile_result
       ELSE \E r \in EngineResults(req.language, Phase1Observations) :
            /\ compile_result' = r
            /\ IF r.compiled
               THEN pc' = "run_phase2" /\ UNCHANGED response
               ELSE Respond([status |-> 200, compiled |-> FALSE,
                             compile_error |-> r.error, tests |-> <<>>,
                             passed |-> 0, total |-> Len(testcases),
                             verdict |-> "CE"])
    /\ UNCHANGED <<req, testcases, problem_time_limit, passed, tests, verdict,
                   overall_error, submission_id, runs, exit_codes, gate>>
    /\ UNCHANGED events
    /\ UNCHANGED <<evars, dvars, fvars>>

\* one iteration of the test loop of _run_tests_for_submission
RunTestNoStore ==
    /\ pc = "run_phase2"
    /\ Len(tests) < Len(testcases)
    /\ LET tc == testcases[Len(tests) + 1] IN
       \E o \in EngineOutcomes(req.language, TestObservations(tc)) :
         LET result == o.result
             status == RunTestStatus(result, tc.expected_output) IN
         /\ runs' = Append(runs, result)
         /\ exit_codes' = Append(exit_codes, o.exit_code)
         /\ overall_error' = RunNextOverallError(overall_error, result)
         /\ passed' = IF status = "PASS" THEN passed + 1 ELSE passed
         /\ tests' = Append(tests, RunTestEntry(tc, result))
    /\ UNCHANGED <<pc, req, testcases, problem_time_limit, verdict,
                   submission_id, compile_result, gate, response>>
    /\ UNCHANGED events
    /\ UNCHANGED <<evars, dvars, fvars>>

\* the return of _run_tests_for_submission with the result stored as the
\* grader of /submit stores it
RunReturn_Stores ==
    /\ pc = "run_phase2"
    /\ Len(tests) = Len(testcases)
    /\ verdict' = RunVerdict(passed, Len(testcases), overall_error)
    /\ submissions' = Append(submissions,
          SubmissionRow(LastRowId, USER_ID, PROBLEM_ID, req.files,
                        req.language, verdict', passed, Len(testcases),
                        overall_error))
    /\ Respond([status |-> 200, compiled |-> TRUE, tests |-> tests,
                passed |-> passed, total |-> Len(testcases),
                verdict |-> RunVerdict(passed, Len(testcases), overall_error),
                error |-> overall_error])
    /\ UNCHANGED <<req, testcases, problem_time_limit, passed, tests,
                   overall_error, submission_id, compile_result, runs,
                   exit_codes, gate, events>>
    /\ UNCHANGED <<evars, submission_testcases, ENABLE_DEPLOYMENT_VALIDATION,
                   fvars>>

\* the verdict and the return statement of _run_tests_for_submission
RunReturn ==
    /\ pc = "run_phase2"
    /\ Len(tests) = Len(testcases)
    /\ verdict' = RunVerdict(passed, Len(testcases), overall_error)
    /\ Respond([status |-> 200, compiled |-> TRUE, tests |-> tests,
                passed |-> passed, total |-> Len(testcases),
                verdict |-> RunVerdict(passed, Len(testcases), overall_error),
                error |-> overall_error])
    /\ UNCHANGED <<req, testcases, problem_time_limit, passed, tests,
                   overall_error, submission_id, compile_result, runs, exit_codes, gate>>
    /\ UNCHANGED events
    /\ UNCHANGED <<evars, dvars, fvars>>

\* public_get_problem: the problem row with its test case rows attached
public_get_problem ==
    /\ pc = "idle"
    /\ \E slug \in {"missing", "found"}, flags \in TestCaseLists,
          tl \in ProblemTimeLimits, fetch_raises \in BOOLEAN :
         /\ req' = [endpoint |-> "problem", auth |-> "no_header",
                    language |-> "", problem_slug |-> slug,
                    files |-> <<>>, stdin |-> <<>>]
         /\ IF fetch_raises
            THEN Respond(ErrorResponse(500, "Internal server error"))
            ELSE IF slug = "missing"
            THEN Respond(ErrorResponse(404, "Problem not found"))
            ELSE Respond([status |-> 200,
                          problem |-> [id |-> PROBLEM_ID, time_limit |-> tl,
                               testcases |-> FetchedTestcases(flags)]])
    /\ UNCHANGED <<testcases, problem_time_limit, passed, tests, verdict,
                   overall_error, submission_id, compile_result, runs, exit_codes, gate>>
    /\ UNCHANGED events
    /\ UNCHANGED <<evars, dvars, fvars>>

----------------------------------------------------------------------------
(* Specifications *)

\* one request to the application, from arrival to response
Init == GraderInit /\ StoreInit /\ EngineInit /\ FunctionsInit

Next ==
    \/ public_submit
    \/ StoreEmpty
    \/ Phase1
    \/ RunTest
    \/ Phase3
    \/ StoreSubmission
    \/ StoreTestcase
    \/ SubmitReturn
    \/ public_run_code
    \/ RunSingle
    \/ RunPhase1
    \/ RunTestNoStore
    \/ RunReturn
    \/ public_get_problem

Spec == Init /\ [][Next]_vars

\* one call of run_in_docker, from entry to return
SpecEngine == Init /\ [][EngineNext]_vars

\* the file sets validate_files is called with: up to MaxFiles + 1 files of
\* one size, and such a set with one more file of another name and size
PadNames ==
    <<"a.py", "b.py", "c.py", "d.py", "e.py", "f.py", "g.py", "h.py", "i.py",
      "j.py", "k.py">>
PadSizes == {0, MAX_TOTAL_FILES_SIZE \div MaxFiles, MAX_FILE_SIZE}
Pad(n, size) == [i \in 1..n |-> File(PadNames[i], size)]
SpecialNames ==
    {"app.py", "app.py\n", "main.cpp", "Main_1-a.java", "run.sh", "run.sh\n",
     "x.shy", "a..b.py", "../x.py", "/etc.py", "~x.py", "a b.py", "x.pyc",
     "x.class", "x.exe", "x.dll", "x.so", ""}
SpecialSizes == {1, MAX_FILE_SIZE, MAX_FILE_SIZE + 1}
ValidateInputs ==
    {Pad(n, size) : n \in 0..(MaxFiles + 1), size \in PadSizes}
    \cup {Append(Pad(n, size), File(name, sz)) :
             n \in 0..MaxFiles, size \in PadSizes, name \in SpecialNames,
             sz \in SpecialSizes}

\* is_valid, error_msg = validate_files(files)
ValidateCall ==
    /\ v_result = UNSET
    /\ v_result' = validate_files(v_files)
    /\ UNCHANGED <<v_files, cvars, svars, qvars, kvars, pvars>>
    /\ UNCHANGED <<evars, gvars, dvars>>

\* the texts compared: all texts of up to MaxLen atoms on one side, a few
\* texts on the other
CompareAtoms == {"a", "\r", "\n"}
CompareTexts == UNION { [1..n -> CompareAtoms] : n \in 0..MaxLen }
FewTexts ==
    { <<>>, <<"a">>, <<"a", "\n", "a">>, <<"a", "\r", "\n", "a">>,
      <<"a", "a">>, <<"\n", "a", "\r">> }

\* test_status of the test loop for a result without error
StatusOf(output, expected) ==
    TestStatus(ExecutionResult(TRUE, output, <<>>, TRUE), expected)

\* the comparison of the test loop
CompareCall ==
    /\ c_status = "none"
    /\ c_status' = StatusOf(c_output, c_expected)
    /\ UNCHANGED <<c_output, c_expected, c_before, c_rewrite>>
    /\ UNCHANGED <<vvars, svars, qvars, kvars, pvars>>
    /\ UNCHANGED <<evars, gvars, dvars>>

\* the comparison made again after one side was rewritten to new
Recompare(side, new, rewrite) ==
    /\ c_status # "none"
    /\ c_rewrite = NoRewrite
    /\ c_before' = c_status
    /\ c_rewrite' = rewrite
    /\ IF side = "output"
       THEN /\ c_output' = new
            /\ c_status' = StatusOf(new, c_expected)
            /\ UNCHANGED c_expected
       ELSE /\ c_expected' = new
            /\ c_status' = StatusOf(c_output, new)
            /\ UNCHANGED c_output
    /\ UNCHANGED <<vvars, svars, qvars, kvars, pvars>>
    /\ UNCHANGED <<evars, gvars, dvars>>

Sides == {"output", "expected"}
SideText(side) == IF side = "output" THEN c_output ELSE c_expected

\* a whitespace character added in front of or behind one side
PadText ==
    \E side \in Sides, w \in Whitespace, front \in BOOLEAN :
       Recompare(side,
                 IF front THEN <<w>> \o SideText(side)
                 ELSE Append(SideText(side), w),
                 Rewrite("pad", FALSE))

\* a leading or trailing whitespace character of one side removed
TrimText ==
    \E side \in Sides, front \in BOOLEAN :
       LET t == SideText(side) IN
       /\ t # <<>>
       /\ (IF front THEN t[1] ELSE t[Len(t)]) \in Whitespace
       /\ Recompare(side,
                    IF front THEN Tail(t) ELSE SubSeq(t, 1, Len(t) - 1),
                    Rewrite("trim", FALSE))

\* one "\r\n" of one side replaced by "\n"
CRLFToLF ==
    \E side \in Sides :
       LET t == SideText(side) IN
       \E k \in 1..(Len(t) - 1) :
          /\ t[k] = "\r" /\ t[k + 1] = "\n"
          /\ Recompare(side,
                       SubSeq(t, 1, k - 1) \o SubSeq(t, k + 1, Len(t)),
                       Rewrite("crlf_to_lf", k > 1 /\ t[k - 1] = "\r"))

\* one "\n" of one side replaced by "\r\n"
LFToCRLF ==
    \E side \in Sides :
       LET t == SideText(side) IN
       \E k \in 1..Len(t) :
          /\ t[k] = "\n"
          /\ Recompare(side,
                       SubSeq(t, 1, k - 1) \o <<"\r">> \o SubSeq(t, k, Len(t)),
                       Rewrite("lf_to_crlf", k > 1 /\ t[k - 1] = "\r"))

CompareNext ==
    \/ CompareCall
    \/ PadText
    \/ TrimText
    \/ CRLFToLF
    \/ LFToCRLF

\* one comparison, and the comparison of the pair with one side rewritten
InitCompare ==
    /\ GraderInit /\ StoreInit /\ EngineInit /\ ValidateInit
    /\ PersistInit /\ LoopsInit /\ RouteInit /\ PoolInit
    /\ \E pair \in (CompareTexts \X FewTexts) \cup (FewTexts \X CompareTexts) :
          c_output = pair[1] /\ c_expected = pair[2]
    /\ c_status = "none"
    /\ c_before = "none"
    /\ c_rewrite = NoRewrite
SpecCompare == InitCompare /\ [][CompareNext]_vars

\* validate_files on every file set of ValidateInputs
InitValidate ==
    /\ GraderInit /\ StoreInit /\ EngineInit /\ CompareInit
    /\ PersistInit /\ LoopsInit /\ RouteInit /\ PoolInit
    /\ v_files \in ValidateInputs
    /\ v_result = UNSET
ValidateNext == ValidateCall
SpecValidate == InitValidate /\ [][ValidateNext]_vars

----------------------------------------------------------------------------
(* Persistence of several submissions at once: the tail of                 *)
(* _run_tests_for_submission_with_storage, one statement of db.py at a     *)
(* time, for requests served by different threads.                         *)

\* the requests, named by the id of their user
Submitters == {1, 2}
StatusLists == UNION { [1..n -> {"PASS", "RE"}] : n \in 1..MaxTests }
PersistedVerdict(statuses) ==
    IF \A i \in DOMAIN statuses : statuses[i] = "PASS" THEN "AC" ELSE "RE"
PersistedPassed(statuses) ==
    Len(SelectSeq(statuses, LAMBDA x : x = "PASS"))

\* cur.lastrowid with the id read from the table instead of the connection
LastRowIdOf_TableMax(p) == Len(submissions)

\* cur.lastrowid: the id generated by the last INSERT of this connection
LastRowIdOf(p) == s_lastrowid[p]

\* store_submission: cur.execute("INSERT INTO submissions ...")
InsertSubmission(p) ==
    /\ s_pc[p] = "store_submission"
    /\ \/ /\ submissions' = Append(submissions,
                SubmissionRow(LastRowId, p, PROBLEM_ID, <<"src">>, "python",
                              PersistedVerdict(s_tests[p]),
                              PersistedPassed(s_tests[p]), Len(s_tests[p]),
                              None))
          /\ s_lastrowid' = [s_lastrowid EXCEPT ![p] = LastRowId]
          /\ s_pc' = [s_pc EXCEPT ![p] = "lastrowid"]
       \/ \* the INSERT raises
          /\ s_pc' = [s_pc EXCEPT ![p] = "failed"]
          /\ UNCHANGED <<submissions, s_lastrowid>>
    /\ UNCHANGED <<s_tests, s_sid, s_i, submission_testcases,
                   ENABLE_DEPLOYMENT_VALIDATION>>
    /\ UNCHANGED <<evars, gvars, vvars, cvars, qvars, kvars, pvars>>

\* store_submission: `return cur.lastrowid`, assigned to submission_id
ReturnLastRowId(p) ==
    /\ s_pc[p] = "lastrowid"
    /\ s_sid' = [s_sid EXCEPT ![p] = LastRowIdOf(p)]
    /\ s_pc' = [s_pc EXCEPT ![p] = "store_testcases"]
    /\ UNCHANGED <<s_tests, s_lastrowid, s_i>>
    /\ UNCHANGED <<evars, gvars, dvars, vvars, cvars, qvars, kvars, pvars>>

\* one iteration of `for i, test in enumerate(tests)`:
\* store_submission_testcase(submission_id, testcases[i]['id'], ...)
InsertTestcase(p) ==
    /\ s_pc[p] = "store_testcases"
    /\ s_i[p] < Len(s_tests[p])
    /\ LET i == s_i[p] + 1 IN
       \/ /\ submission_testcases' = Append(submission_testcases,
                TestcaseRow(s_sid[p], TestCase(i, FALSE).id, s_tests[p][i],
                            <<>>, None))
          /\ s_i' = [s_i EXCEPT ![p] = i]
          /\ UNCHANGED s_pc
       \/ \* the INSERT raises
          /\ s_pc' = [s_pc EXCEPT ![p] = "failed"]
          /\ UNCHANGED <<submission_testcases, s_i>>
    /\ UNCHANGED <<s_tests, s_lastrowid, s_sid, submissions,
                   ENABLE_DEPLOYMENT_VALIDATION>>
    /\ UNCHANGED <<evars, gvars, vvars, cvars, qvars, kvars, pvars>>

\* the return statement with submission_id
PersistReturn(p) ==
    /\ s_pc[p] = "store_testcases"
    /\ s_i[p] = Len(s_tests[p])
    /\ s_pc' = [s_pc EXCEPT ![p] = "done"]
    /\ UNCHANGED <<s_tests, s_lastrowid, s_sid, s_i>>
    /\ UNCHANGED <<evars, gvars, dvars, vvars, cvars, qvars, kvars, pvars>>

PersistNext ==
    \/ \E p \in Submitters : InsertSubmission(p)
    \/ \E p \in Submitters : ReturnLastRowId(p)
    \/ \E p \in Submitters : InsertTestcase(p)
    \/ \E p \in Submitters : PersistReturn(p)

InitPersist ==
    /\ GraderInit /\ StoreInit /\ EngineInit
    /\ ValidateInit /\ CompareInit /\ LoopsInit /\ RouteInit /\ PoolInit
    /\ s_tests \in [Submitters -> StatusLists]
    /\ s_pc = [p \in Submitters |-> "store_submission"]
    /\ s_lastrowid = [p \in Submitters |-> 0]
    /\ s_sid = [p \in Submitters |-> 0]
    /\ s_i = [p \in Submitters |-> 0]

\* the graded submissions of two users persisted at the same time
SpecPersist == InitPersist /\ [][PersistNext]_vars

----------------------------------------------------------------------------
(* The two test loops side by side: the loop of                            *)
(* _run_tests_for_submission_with_storage (q_submit) and the loop of       *)
(* _run_tests_for_submission (q_run) run over the same test cases and are  *)
(* given the same engine result in every iteration.                        *)

LoopLanguages == {"python", "cpp"}

\* one iteration of the loop of _run_tests_for_submission_with_storage
SubmitIteration(q, tc, result) ==
    LET status == TestStatus(result, tc.expected_output) IN
    [passed |-> IF status = "PASS" THEN q.passed + 1 ELSE q.passed,
     tests |-> Append(q.tests, StoredTestEntry(tc, result)),
     overall_error |-> NextOverallError(q.overall_error, result),
     verdict |-> NextVerdict(q.verdict, status, result)]

\* one iteration of the loop of _run_tests_for_submission
RunIteration(q, tc, result) ==
    LET status == RunTestStatus(result, tc.expected_output) IN
    [passed |-> IF status = "PASS" THEN q.passed + 1 ELSE q.passed,
     tests |-> Append(q.tests, RunTestEntry(tc, result)),
     overall_error |-> RunNextOverallError(q.overall_error, result),
     verdict |-> q.verdict]

\* both loops take the next test case and the same engine result
LoopsStep ==
    /\ Len(q_run.tests) < Len(q_testcases)
    /\ LET tc == q_testcases[Len(q_run.tests) + 1] IN
       \E language \in LoopLanguages :
       \E result \in EngineResults(language, TestObservations(tc)) :
         /\ q_submit' = SubmitIteration(q_submit, tc, result)
         /\ q_run' = RunIteration(q_run, tc, result)
    /\ UNCHANGED q_testcases
    /\ UNCHANGED <<vvars, cvars, svars, kvars, pvars>>
    /\ UNCHANGED <<evars, gvars, dvars>>

\* after the last test: the tests-phase verdict of the grader
\* (`if passed != total and verdict == "AC": verdict = "WA"`) and the verdict
\* of _run_tests_for_submission (`if passed == total: ... else: ...`)
LoopsReturn ==
    /\ Len(q_run.tests) = Len(q_testcases)
    /\ q_run.verdict = NoVerdict
    /\ q_submit' = [q_submit EXCEPT !.verdict =
          FinalTestsVerdict(q_submit.verdict, q_submit.passed,
                            Len(q_testcases))]
    /\ q_run' = [q_run EXCEPT !.verdict =
          RunVerdict(q_run.passed, Len(q_testcases), q_run.overall_error)]
    /\ UNCHANGED q_testcases
    /\ UNCHANGED <<vvars, cvars, svars, kvars, pvars>>
    /\ UNCHANGED <<evars, gvars, dvars>>

LoopsNext ==
    \/ LoopsStep
    \/ LoopsReturn

InitLoops ==
    /\ GraderInit /\ StoreInit /\ EngineInit
    /\ ValidateInit /\ CompareInit /\ PersistInit /\ RouteInit /\ PoolInit
    /\ \E flags \in TestCaseLists : q_testcases = FetchedTestcases(flags)
    /\ q_submit = [passed |-> 0, tests |-> <<>>, overall_error |-> None,
                   verdict |-> "AC"]
    /\ q_run = [passed |-> 0, tests |-> <<>>, overall_error |-> None,
                verdict |-> NoVerdict]

SpecLoops == InitLoops /\ [][LoopsNext]_vars

----------------------------------------------------------------------------
(* The decorators of /api/submit and /api/run in the order in which they   *)
(* wrap the view: the rate limiter with key_func=rate_limit_key is applied *)
(* outside login_required / optional_login, so its key is computed before  *)
(* the authentication wrapper runs.  k_user is g.current_user (UNSET: the  *)
(* attribute does not exist), k_key the key the limiter counted under.     *)

RemoteAddresses == {"10.0.0.1", "10.0.0.2"}
UserIds == {1, 2}
RouteEndpoints == {"submit", "run"}

\* rate_limit_key(): `if hasattr(g, 'current_user') and g.current_user`
rate_limit_key(current_user, remote_addr) ==
    IF current_user # UNSET /\ current_user # None
    THEN <<"user_", ToString(current_user.id)>>
    ELSE <<remote_addr>>

\* @limiter.limit(..., key_func=rate_limit_key): the key is computed and the
\* request is counted, or refused with 429, before the wrapped function runs
LimiterCheck ==
    /\ k_pc = "limiter"
    /\ k_key' = rate_limit_key(k_user, k_req.remote_addr)
    /\ \/ k_pc' = "login"
       \/ k_pc' = "limited"
    /\ UNCHANGED <<k_req, k_user>>
    /\ UNCHANGED <<vvars, cvars, svars, qvars, pvars>>
    /\ UNCHANGED <<evars, gvars, dvars>>

\* login_required around public_submit
RouteLoginRequired ==
    /\ k_pc = "login"
    /\ k_req.endpoint = "submit"
    /\ IF k_req.auth \in {"no_header", "bad_token", "no_user"}
       THEN k_pc' = "unauthorized" /\ UNCHANGED k_user
       ELSE IF k_req.auth = "db_error"
       THEN k_pc' = "error" /\ UNCHANGED k_user
       ELSE k_user' = [id |-> k_req.user_id] /\ k_pc' = "view"
    /\ UNCHANGED <<k_req, k_key>>
    /\ UNCHANGED <<vvars, cvars, svars, qvars, pvars>>
    /\ UNCHANGED <<evars, gvars, dvars>>

\* optional_login around public_run_code
RouteOptionalLogin ==
    /\ k_pc = "login"
    /\ k_req.endpoint = "run"
    /\ IF k_req.auth = "db_error"
       THEN k_pc' = "error" /\ k_user' = None
       ELSE /\ k_user' = IF k_req.auth = "ok"
                         THEN [id |-> k_req.user_id] ELSE None
            /\ k_pc' = "view"
    /\ UNCHANGED <<k_req, k_key>>
    /\ UNCHANGED <<vvars, cvars, svars, qvars, pvars>>
    /\ UNCHANGED <<evars, gvars, dvars>>

RouteNext ==
    \/ LimiterCheck
    \/ RouteLoginRequired
    \/ RouteOptionalLogin

InitRoute ==
    /\ GraderInit /\ StoreInit /\ EngineInit
    /\ ValidateInit /\ CompareInit /\ PersistInit /\ LoopsInit /\ PoolInit
    /\ k_pc = "limiter"
    /\ \E endpoint \in RouteEndpoints, auth \in AuthCases,
          user_id \in UserIds, remote_addr \in RemoteAddresses :
          k_req = [endpoint |-> endpoint, auth |-> auth,
                   user_id |-> user_id, remote_addr |-> remote_addr]
    /\ k_user = UNSET
    /\ k_key = None

SpecRoute == InitRoute /\ [][RouteNext]_vars

----------------------------------------------------------------------------
(* db.py: get_conn and create_pool called by concurrent requests.  Each    *)
(* thread performs one repository operation: get_conn(), statement by      *)
(* statement, and conn.close() in the finally of the operation.  A pool    *)
(* hands out a connection while fewer than POOL_SIZE of its connections    *)
(* are held; get_connection() raises PoolError, an Error, when it is       *)
(* exhausted, and may raise Error when the server is not reachable.        *)

POOL_SIZE == 2
CREATE_POOL_RETRIES == 3
PoolThreads == {1, 2, 3}
\* at most this many calls fail because the server is not reachable
MaxDbFailures == 2
ServerMayFail == p_failures < MaxDbFailures

\* the connections of pool p not handed out
FreeConnections(p) ==
    POOL_SIZE - Cardinality({t \in DOMAIN p_thread : p_thread[t].conn = p})

\* get_connection() of pool p raises Error: PoolError when the pool is
\* exhausted, another Error when the server is not reachable
GetConnectionFails(p) == FreeConnections(p) = 0 \/ ServerMayFail
FailuresAfter(p) ==
    IF FreeConnections(p) = 0 THEN p_failures ELSE p_failures + 1

\* where create_pool returns to: the statement after its call in get_conn
AfterCreatePool(call) == IF call = "first" THEN "get" ELSE "retry_get"

PoolFrame ==
    /\ UNCHANGED <<vvars, cvars, svars, qvars, kvars>>
    /\ UNCHANGED <<evars, gvars, dvars>>

\* get_conn: `if _cnxpool is None: create_pool()`
GetConnCheck(t) ==
    /\ p_thread[t].pc = "check"
    /\ p_thread' = [p_thread EXCEPT ![t].pc =
          IF p_pool = 0 THEN "create_pool" ELSE "get", ![t].call = "first"]
    /\ UNCHANGED <<p_pool, p_count>>
    /\ UNCHANGED p_failures
    /\ PoolFrame

\* create_pool: `if _cnxpool is not None: return _cnxpool`
CreatePoolEntry(t) ==
    /\ p_thread[t].pc = "create_pool"
    /\ p_thread' = [p_thread EXCEPT ![t].pc =
          IF p_pool # 0 THEN AfterCreatePool(p_thread[t].call)
          ELSE "construct", ![t].attempt = 0]
    /\ UNCHANGED <<p_pool, p_count>>
    /\ UNCHANGED p_failures
    /\ PoolFrame

\* create_pool: `for attempt in range(retries)`, the assignment
\* `_cnxpool = pooling.MySQLConnectionPool(...)`, its `except Error`, and
\* the RuntimeError after the last attempt
CreatePoolConstruct(t) ==
    /\ p_thread[t].pc = "construct"
    /\ IF p_thread[t].attempt = CREATE_POOL_RETRIES
       THEN /\ p_thread' = [p_thread EXCEPT ![t].pc = "RuntimeError"]
            /\ UNCHANGED <<p_pool, p_count, p_failures>>
       ELSE \/ /\ p_pool' = p_count + 1
               /\ p_count' = p_count + 1
               /\ p_thread' = [p_thread EXCEPT ![t].pc = "smoke"]
               /\ UNCHANGED p_failures
            \/ /\ ServerMayFail
               /\ p_failures' = p_failures + 1
               /\ p_thread' = [p_thread EXCEPT ![t].attempt = @ + 1]
               /\ UNCHANGED <<p_pool, p_count>>
    /\ PoolFrame

\* create_pool: the smoke test `conn = _cnxpool.get_connection();
\* conn.close(); return _cnxpool` and its `except Error`
CreatePoolSmoke(t) ==
    /\ p_thread[t].pc = "smoke"
    /\ IF p_pool = 0
       THEN /\ p_thread' = [p_thread EXCEPT ![t].pc = "AttributeError"]
            /\ UNCHANGED p_failures
       ELSE \/ /\ FreeConnections(p_pool) > 0
               /\ p_thread' = [p_thread EXCEPT ![t].pc =
                     AfterCreatePool(p_thread[t].call)]
               /\ UNCHANGED p_failures
            \/ /\ GetConnectionFails(p_pool)
               /\ p_failures' = FailuresAfter(p_pool)
               /\ p_thread' = [p_thread EXCEPT ![t].pc = "construct",
                                               ![t].attempt = @ + 1]
    /\ UNCHANGED <<p_pool, p_count>>
    /\ PoolFrame

\* get_conn: `try: return _cnxpool.get_connection()` and `except Error`
GetConnGet(t) ==
    /\ p_thread[t].pc = "get"
    /\ IF p_pool = 0
       THEN /\ p_thread' = [p_thread EXCEPT ![t].pc = "AttributeError"]
            /\ UNCHANGED p_failures
       ELSE \/ /\ FreeConnections(p_pool) > 0
               /\ p_thread' = [p_thread EXCEPT ![t].pc = "holding",
                                               ![t].conn = p_pool]
               /\ UNCHANGED p_failures
            \/ /\ GetConnectionFails(p_pool)
               /\ p_failures' = FailuresAfter(p_pool)
               /\ p_thread' = [p_thread EXCEPT ![t].pc = "reset"]
    /\ UNCHANGED <<p_pool, p_count>>
    /\ PoolFrame

\* get_conn, in the except clause: `_cnxpool = None; create_pool()`
GetConnReset(t) ==
    /\ p_thread[t].pc = "reset"
    /\ p_pool' = 0
    /\ p_thread' = [p_thread EXCEPT ![t].pc = "create_pool",
                                    ![t].call = "retry"]
    /\ UNCHANGED p_count
    /\ UNCHANGED p_failures
    /\ PoolFrame

\* get_conn, in the except clause: `return _cnxpool.get_connection()`
GetConnRetryGet(t) ==
    /\ p_thread[t].pc = "retry_get"
    /\ IF p_pool = 0
       THEN /\ p_thread' = [p_thread EXCEPT ![t].pc = "AttributeError"]
            /\ UNCHANGED p_failures
       ELSE \/ /\ FreeConnections(p_pool) > 0
               /\ p_thread' = [p_thread EXCEPT ![t].pc = "holding",
                                               ![t].conn = p_pool]
               /\ UNCHANGED p_failures
            \/ /\ GetConnectionFails(p_pool)
               /\ p_failures' = FailuresAfter(p_pool)
               /\ p_thread' = [p_thread EXCEPT ![t].pc = "Error"]
    /\ UNCHANGED <<p_pool, p_count>>
    /\ PoolFrame

\* the operation's `finally: cur.close(); conn.close()`
ConnClose(t) ==
    /\ p_thread[t].pc = "holding"
    /\ p_thread' = [p_thread EXCEPT ![t].pc = "closed", ![t].conn = 0]
    /\ UNCHANGED <<p_pool, p_count>>
    /\ UNCHANGED p_failures
    /\ PoolFrame

PoolNext ==
    \/ \E t \in PoolThreads : GetConnCheck(t)
    \/ \E t \in PoolThreads : CreatePoolEntry(t)
    \/ \E t \in PoolThreads : CreatePoolConstruct(t)
    \/ \E t \in PoolThreads : CreatePoolSmoke(t)
    \/ \E t \in PoolThreads : GetConnGet(t)
    \/ \E t \in PoolThreads : GetConnReset(t)
    \/ \E t \in PoolThreads : GetConnRetryGet(t)
    \/ \E t \in PoolThreads : ConnClose(t)

InitPool ==
    /\ GraderInit /\ StoreInit /\ EngineInit
    /\ ValidateInit /\ CompareInit /\ PersistInit /\ LoopsInit /\ RouteInit
    /\ p_pool = 0
    /\ p_count = 0
    /\ p_failures = 0
    /\ p_thread = [t \in PoolThreads |->
                     [pc |-> "check", call |-> "first", attempt |-> 0,
                      conn |-> 0]]

SpecPool == InitPool /\ [][PoolNext]_vars

----------------------------------------------------------------------------
(* Properties *)

IsSubmit == req.endpoint = "submit"
HasField(r, f) == f \in DOMAIN r
\* the Phase-1 call of this request reported compiled = false
CompileFailed == HasField(compile_result, "compiled") /\ ~compile_result.compiled
\* the deployment validator was called and vetoed
Vetoed == gate # NoGate /\ ~gate[1]
\* the /submit response that carries a graded result
GradedResponse == IsSubmit /\ response.status = 200
NonPassing(ts) == {i \in DOMAIN ts : ts[i].status # "PASS"}
Min(S) == CHOOSE x \in S : \A y \in S : x <= y

\* C1: every submission row written by /submit, and the response that
\* reports it, has verdict AC if and only if passed = total, the code
\* compiled (the Phase-1 result) and the deployment validator did not veto.
C1_VerdictACIff ==
    IsSubmit =>
      /\ \A i \in DOMAIN submissions :
            (submissions[i].verdict = "AC") <=>
               /\ submissions[i].passed = submissions[i].total
               /\ ~CompileFailed
               /\ ~Vetoed
      /\ GradedResponse =>
            ((response.verdict = "AC") <=>
               /\ response.passed = response.total
               /\ response.compiled
               /\ ~Vetoed)

\* a stored AC submission of a problem with two or more tests that went
\* through the deployment validator
C1_Witness ==
    /\ IsSubmit /\ pc = "done" /\ GradedResponse
    /\ Len(submissions) = 1 /\ submissions[1].verdict = "AC"
    /\ submissions[1].total >= 2
    /\ gate # NoGate

\* C2: when run_in_docker has returned (or raised), no container that the
\* call created exists in the daemon.
C2_NoContainerAfterReturn ==
    e_pc \in {"returned", "raised"} => daemon = {}

\* C3: in every state of the store a submission row with total > 0 and a
\* verdict other than CE has exactly total submission_testcases rows.
C3_NoPartialRows ==
    \A i \in DOMAIN submissions :
       (submissions[i].total > 0 /\ submissions[i].verdict # "CE") =>
          Len(RowsOf(submissions[i].id)) = submissions[i].total

\* C4: the submission_testcases row of a hidden test holds the output and
\* the error captured from the run of that test.
C4_PersistedRealOutput ==
    IsSubmit =>
      \A k \in DOMAIN RowsOf(submission_id) :
         testcases[k].is_hidden =>
            /\ RowsOf(submission_id)[k].output = runs[k].output
            /\ RowsOf(submission_id)[k].error_message = TestError(runs[k])

\* C5: in every /submit response every test entry with is_hidden = true has
\* input, expected and output equal to "[Hidden]".
C5_HiddenRedacted ==
    (GradedResponse /\ HasField(response, "tests")) =>
       \A i \in DOMAIN response.tests :
          response.tests[i].is_hidden =>
             /\ response.tests[i].input = HIDDEN
             /\ response.tests[i].expected = HIDDEN
             /\ response.tests[i].output = HIDDEN

\* a /submit response with one hidden test that passed and one hidden test
\* that ended with an engine error
C5_Witness ==
    /\ GradedResponse /\ HasField(response, "tests")
    /\ \E i, j \in DOMAIN response.tests :
          /\ response.tests[i].is_hidden /\ response.tests[i].status = "PASS"
          /\ response.tests[j].is_hidden /\ response.tests[j].status = "RE"
          /\ runs[i].output # <<>>

\* C6: no response carries the input, the expected output or the captured
\* output of a hidden test case: not the test entries of /api/run, and
\* the hidden test cases of /api/problem/<slug> carry only id and order.
C6_NoHiddenDataInResponses ==
    /\ (req.endpoint = "run" /\ response.status = 200
          /\ HasField(response, "tests")) =>
          \A i \in DOMAIN response.tests :
             testcases[i].is_hidden =>
                /\ ~SubText(testcases[i].input_text, response.tests[i].input)
                /\ ~SubText(testcases[i].expected_output,
                            response.tests[i].expected)
                /\ runs[i].output # <<>> =>
                      ~SubText(runs[i].output, response.tests[i].output)
    /\ (req.endpoint = "problem" /\ response.status = 200) =>
          \A i \in DOMAIN response.problem.testcases :
             response.problem.testcases[i].is_hidden =>
                DOMAIN response.problem.testcases[i]
                   \subseteq {"id", "execution_order", "is_hidden"}

\* C7: in a /submit response neither the error of a hidden test nor the
\* top-level error contains the input of a hidden test.
C7_NoHiddenDataInErrors ==
    (GradedResponse /\ HasField(response, "tests")) =>
       \A i \in DOMAIN response.tests :
          testcases[i].is_hidden =>
             /\ ~SubText(testcases[i].input_text, response.tests[i].error)
             /\ ~SubText(testcases[i].input_text, response.error)

\* C8: 0 <= passed <= total at every point of grading and in the stored row,
\* and once the request is answered every submission has 0 per-test rows
\* (verdict CE or total = 0) or exactly total.
C8_PassedAndRowCount ==
    IsSubmit =>
      /\ 0 <= passed /\ passed <= Len(testcases)
      /\ \A i \in DOMAIN submissions :
            /\ 0 <= submissions[i].passed
            /\ submissions[i].passed <= submissions[i].total
            /\ pc = "done" =>
                  Len(RowsOf(submissions[i].id)) =
                     IF submissions[i].verdict = "CE" THEN 0
                     ELSE submissions[i].total

\* C9: when the Phase-1 call reports compiled = false no test is run and no
\* per-test row is written, and the request ends either with one stored
\* row (CE, passed 0, total = number of test cases) and the response
\* compiled = false, tests = [], verdict CE, or, when the insert fails,
\* with status 500 and no row.
C9_CompileError ==
    (IsSubmit /\ CompileFailed) =>
       /\ runs = <<>> /\ tests = <<>> /\ submission_testcases = <<>>
       /\ pc = "done"
       /\ \/ /\ response.status = 500
             /\ submissions = <<>>
          \/ /\ response.status = 200
             /\ ~response.compiled
             /\ response.tests = <<>>
             /\ response.verdict = "CE"
             /\ response.passed = 0
             /\ response.total = Len(testcases)
             /\ response.compile_error = compile_result.error
             /\ Len(submissions) = 1
             /\ submissions[1].verdict = "CE"
             /\ submissions[1].passed = 0
             /\ submissions[1].total = Len(testcases)
             /\ response.submission_id = submissions[1].id

\* a stored CE submission of a problem with two or more test cases
C9_Witness ==
    /\ IsSubmit /\ CompileFailed /\ pc = "done"
    /\ response.status = 200
    /\ Len(testcases) >= 2
    /\ Len(submissions) = 1

\* the verdict the claim assigns to a non-passing test entry
VerdictOfEntry(t) ==
    IF SubText(TLE_TEXT, t.error) THEN "TLE"
    ELSE IF SubText(MLE_TEXT, t.error) THEN "MLE"
    ELSE IF t.status = "RE" THEN "RE"
    ELSE "WA"
VerdictOfTests(ts) ==
    IF NonPassing(ts) = {} THEN "AC" ELSE VerdictOfEntry(ts[Min(NonPassing(ts))])

\* C10: at every point of the test loop and after it the tests-phase
\* verdict is the one of the first non-passing test in execution order
\* (TLE, else MLE, else RE, else WA) and AC when every test so far passed;
\* the deployment validator, which acts on a tests-phase verdict AC only,
\* is called only when every test passed.
C10_FirstNonPassDecides ==
    (IsSubmit /\ ~CompileFailed) =>
       /\ pc = "phase2" => verdict = VerdictOfTests(tests)
       /\ (pc \in {"store_submission", "store_testcases"} /\ gate = NoGate)
             => verdict = VerdictOfTests(tests)
       /\ gate # NoGate =>
             /\ VerdictOfTests(tests) = "AC"
             /\ Len(tests) = Len(testcases)
       /\ (pc \in {"store_submission", "store_testcases"}) =>
             ((VerdictOfTests(tests) = "AC") <=> (passed = Len(testcases)))

\* a wrong answer followed by a time limit: the verdict stays WA
C10_Witness ==
    /\ IsSubmit /\ pc = "store_submission"
    /\ Len(tests) >= 2
    /\ tests[1].status = "FAIL"
    /\ tests[2].status = "RE" /\ tests[2].error = TLE_TEXT
    /\ verdict = "WA"

\* the exec_res of the run exec of the call, when the call got that far
RunExecDone == e_execs # <<>> /\ e_execs[Len(e_execs)].kind = "run"
LastExec == e_execs[Len(e_execs)]

\* C11: the result of a call that reached the run exec is decided by the
\* exit code: 0 gives success, output = stdout and an empty error; 124 gives
\* error "Time Limit Exceeded" and 137 "Memory Limit Exceeded" whatever
\* stderr holds; any other code gives stderr, or "Runtime Error (Exit Code
\* N)" when stderr is empty; success is false for every non-zero code.
C11_ExitCodeClassifies ==
    (e_pc \in {"finally", "returned"} /\ RunExecDone) =>
       /\ e_ret.compiled
       /\ e_ret.output = LastExec.stdout
       /\ e_ret.success <=> (LastExec.exit_code = 0)
       /\ LastExec.exit_code = 0 => e_ret.error = <<>>
       /\ LastExec.exit_code = 124 => e_ret.error = <<"Time Limit Exceeded">>
       /\ LastExec.exit_code = 137 => e_ret.error = <<"Memory Limit Exceeded">>
       /\ (LastExec.exit_code \notin {0, 124, 137} /\ LastExec.stderr # <<>>)
             => e_ret.error = LastExec.stderr
       /\ (LastExec.exit_code \notin {0, 124, 137} /\ LastExec.stderr = <<>>)
             => e_ret.error = <<"Runtime Error (Exit Code ",
                                 ToString(LastExec.exit_code), ")">>

\* a run killed by the timeout wrapper after it wrote to stderr
C11_Witness ==
    /\ e_pc = "returned" /\ RunExecDone
    /\ LastExec.exit_code = 124 /\ LastExec.stderr # <<>>
    /\ e_ret.error = TLE_TEXT

\* the two results run_in_docker returns from its except clauses
DriverFailure(r) ==
    r \in {ImageNotFoundResult(req.language), InternalErrorResult}

\* C12: a call that ended in an exception of the driver (missing image
\* included) gives an "Internal Error" result with compiled = true and
\* success = false, the test of /submit it belongs to does not get status
\* RE, and a response whose failing calls all ended that way does not have
\* verdict CE or RE.
C12_DriverFailureIsInternalError ==
    /\ \A i \in DOMAIN runs :
          DriverFailure(runs[i]) =>
             /\ SubText(<<"Internal Error">>, runs[i].error)
             /\ runs[i].compiled /\ ~runs[i].success
             /\ (IsSubmit /\ i \in DOMAIN tests) => tests[i].status # "RE"
    /\ (pc = "done" /\ response.status = 200 /\ HasField(response, "verdict")
          /\ (\E i \in DOMAIN runs : DriverFailure(runs[i]))
          /\ (\A i \in DOMAIN runs :
                 runs[i].error # <<>> => DriverFailure(runs[i]))) =>
          response.verdict \notin {"CE", "RE"}

\* C13: a /submit in which a call of the engine ended in an exception of the
\* driver, in Phase 1 or in a test run, has verdict IE in its response and
\* in its stored row.
C13_DriverFailureGivesIE ==
    (IsSubmit
       /\ \/ HasField(compile_result, "error") /\ DriverFailure(compile_result)
          \/ \E i \in DOMAIN runs : DriverFailure(runs[i])) =>
       /\ pc \in {"store_submission", "store_testcases", "done"} =>
             verdict = "IE"
       /\ \A i \in DOMAIN submissions : submissions[i].verdict = "IE"
       /\ GradedResponse => response.verdict = "IE"

\* C14: the deployment validator is called only when every test passed
\* (tests-phase verdict AC); verdict DEP occurs only after its veto, and
\* then the top-level error is the validator's message and passed = total
\* in the grader, in the stored row and in the response.
C14_DepOnlyAfterACVeto ==
    IsSubmit =>
      /\ gate # NoGate =>
            /\ ENABLE_DEPLOYMENT_VALIDATION
            /\ Len(tests) = Len(testcases)
            /\ VerdictOfTests(tests) = "AC"
            /\ passed = Len(testcases)
      /\ verdict = "DEP" =>
            /\ Vetoed
            /\ overall_error = gate[2]
      /\ \A i \in DOMAIN submissions :
            submissions[i].verdict = "DEP" =>
               /\ Vetoed
               /\ submissions[i].error_message = gate[2]
               /\ submissions[i].passed = submissions[i].total
               /\ submissions[i].total = Len(testcases)
      /\ (GradedResponse /\ response.verdict = "DEP") =>
            /\ Vetoed
            /\ response.error = gate[2]
            /\ response.passed = response.total
            /\ response.total = Len(testcases)

\* a vetoed submission of a problem with two tests, stored and answered
\* with verdict DEP and both per-test rows
C14_Witness ==
    /\ IsSubmit /\ pc = "done" /\ GradedResponse
    /\ response.verdict = "DEP" /\ response.total >= 2
    /\ Len(submissions) = 1 /\ submissions[1].verdict = "DEP"
    /\ Len(RowsOf(submissions[1].id)) = 2
    /\ \E i \in DOMAIN runs : runs[i].success /\ runs[i].output # <<>>

\* the position of a kind of event in a grading call
EventRank(kind) ==
    CASE kind = "compile" -> 1
      [] kind = "test" -> 2
      [] kind = "gate" -> 3
      [] kind = "store_submission" -> 4
      [] kind = "store_testcase" -> 5
\* the fetched test case with this id
TestCaseOf(id) == CHOOSE tc \in {testcases[i] : i \in DOMAIN testcases} : tc.id = id
\* (execution_order, id) order
OrderedBefore(a, b) ==
    \/ a.execution_order < b.execution_order
    \/ a.execution_order = b.execution_order /\ a.id < b.id
EventsOfKind(kind) == SelectSeq(events, LAMBDA e : e.kind = kind)

RECURSIVE SumCompiles(_)
SumCompiles(es) ==
    IF es = <<>> THEN 0 ELSE es[1].compiles + SumCompiles(Tail(es))
RECURSIVE SumRuns(_)
SumRuns(es) ==
    IF es = <<>> THEN 0 ELSE es[1].runs + SumRuns(Tail(es))

\* C16: a grading call for a language with a compile command and N >= 1
\* test cases, in which the compile succeeded and no call of the engine
\* failed in the driver, has executed the compile command once and the run
\* command N times when the test loop is over.
C16_CompileOnceRunN ==
    (IsSubmit /\ HasCompile(req.language)
       /\ pc \in {"store_submission", "store_testcases", "done"}
       /\ Len(testcases) >= 1
       /\ Len(EventsOfKind("test")) = Len(testcases)
       /\ HasField(compile_result, "compiled")
       /\ compile_result.compiled /\ ~DriverFailure(compile_result)
       /\ \A i \in DOMAIN runs :
             runs[i].compiled /\ ~DriverFailure(runs[i])) =>
       /\ SumCompiles(events) = 1
       /\ SumRuns(events) = Len(testcases)

\* what run_in_docker has executed when it returns is one of EngineOutcomes
CountExecs(kind) == Len(SelectSeq(e_execs, LAMBDA x : x.kind = kind))
EngineOutcomesSound ==
    (e_pc = "returned" /\ e_args.language \in ConfiguredLanguages) =>
       \E o \in EngineOutcomes(e_args.language,
                   ExitCodes \X EngineStdouts \X EngineStderrs) :
          /\ o.result = e_ret
          /\ o.compiles = CountExecs("compile")
          /\ o.runs = CountExecs("run")
          /\ o.exit_code = IF RunExecDone THEN <<LastExec.exit_code>> ELSE <<>>

\* the request passed every check of public_submit and its problem exists
SubmitAccepted ==
    /\ IsSubmit
    /\ req.auth = "ok"
    /\ req.language \in VALID_LANGUAGES
    /\ req.problem_slug = "found"
    /\ validate_files(req.files)[1]

\* C17: a /submit for a problem with 0 test cases that is answered with a
\* result has stored exactly one submission row, with verdict AC, passed 0
\* and total 0, and no per-test row, and returns verdict AC, passed 0,
\* total 0 and the id of that row; it calls neither the engine nor the
\* validator.  (When the INSERT fails the answer is 500 and nothing is
\* stored.)
C17_EmptyProblemAccepted ==
    (SubmitAccepted /\ pc = "done" /\ testcases = <<>>
       /\ response # ErrorResponse(500, "Internal Submission System Failure (IE)")) =>
       /\ response.status = 200
       /\ response.verdict = "AC"
       /\ response.passed = 0 /\ response.total = 0
       /\ Len(submissions) = 1
       /\ submissions[1].verdict = "AC"
       /\ submissions[1].passed = 0 /\ submissions[1].total = 0
       /\ response.submission_id = submissions[1].id
       /\ submission_testcases = <<>>
       /\ events = <<Event("store_submission", 0, 0, 0)>>
       /\ runs = <<>> /\ gate = NoGate

\* an accepted submission to a problem without test cases
C17_Witness ==
    /\ SubmitAccepted /\ pc = "done" /\ testcases = <<>>
    /\ response.status = 200 /\ response.verdict = "AC"
    /\ Len(submissions) = 1

\* what the claim accepts: the name consists of characters of the class
\* [A-Za-z0-9_.-] and has no "..", no leading "/" or "~" and none of the
\* executable-like suffixes
NameAllowed(name) ==
    /\ Chars(name) # <<>>
    /\ \A i \in DOMAIN Chars(name) : Chars(name)[i] \in ClassChars
NameForbidden(name) ==
    \/ \E i \in 1..(Len(Chars(name)) - 1) :
          Chars(name)[i] = "." /\ Chars(name)[i + 1] = "."
    \/ Chars(name) # <<>> /\ Chars(name)[1] \in {"/", "~"}
    \/ \E suffix \in ForbiddenSuffixes : EndsWith(Chars(name), suffix)
AcceptableFiles(files) ==
    /\ 1 <= Len(files) /\ Len(files) <= 10
    /\ \A i \in DOMAIN files :
          /\ NameAllowed(files[i].name)
          /\ ~NameForbidden(files[i].name)
          /\ files[i].size <= 50000
    /\ TotalSize(files) <= 200000

\* C18: validate_files accepts a file set if and only if it has 1 to 10
\* files, every name matches the allowed pattern and no forbidden pattern,
\* every file has at most 50000 bytes and all together at most 200000.
C18_ValidateFilesIff ==
    v_result # UNSET => (v_result[1] <=> AcceptableFiles(v_files))

\* validate_files and the claim differ on no other file set than those with
\* a name that ends in a newline
ValidateFilesIffButNewline ==
    (v_result # UNSET /\ v_result[1] # AcceptableFiles(v_files)) =>
       /\ v_result[1]
       /\ \E i \in DOMAIN v_files :
             LET cs == Chars(v_files[i].name) IN
             cs # <<>> /\ cs[Len(cs)] = "\n"
\* the boundary cases of the claim
ValidateBoundaries ==
    /\ validate_files(<<File("app.py", 50000)>>)[1]
    /\ ~validate_files(<<File("app.py", 50001)>>)[1]
    /\ validate_files(Pad(10, 20000))[1]
    /\ ~validate_files(Pad(11, 0))[1]
    /\ validate_files(Pad(4, 50000))[1]
    /\ ~validate_files(Append(Pad(4, 50000), File("app.py", 1)))[1]

\* C19: rewriting one side of a comparison by adding or removing a leading
\* or trailing whitespace character, or by replacing a "\r\n" by "\n" or a
\* "\n" by "\r\n", leaves the test status as it was.
C19_ComparisonInvariant ==
    c_before # "none" => c_status = c_before

\* C19 as amended: ... provided the line ending replaced does not directly
\* follow a "\r".
C19_ComparisonInvariantAmended ==
    (c_before # "none" /\ ~c_rewrite.after_cr) => c_status = c_before

\* a "\r\n" between two words of the output replaced by "\n": PASS stays
\* PASS
C19_Witness ==
    /\ c_rewrite = Rewrite("crlf_to_lf", FALSE)
    /\ c_before = "PASS" /\ c_status = "PASS"
    /\ c_output = <<"a", "\n", "a">>
    /\ c_expected = <<"a", "\r", "\n", "a">>

\* the grader, the engine or the repository has been reached
GraderEntered ==
    \/ pc \notin {"idle", "done"}
    \/ events # <<>> \/ runs # <<>>
    \/ HasField(compile_result, "compiled")
    \/ submissions # <<>> \/ submission_testcases # <<>>

\* C20: /submit reaches the grader, calls the engine or writes a row only
\* for a request with a valid token of an active user, a supported
\* language, a problem slug of an existing problem and a file set that
\* validate_files accepts; a request without such a token is answered 401,
\* one with an unsupported language, without slug or with a rejected file
\* set 400, one whose slug resolves to no problem 404 (500 when the lookup
\* itself fails), each with an error body only.
C20_RejectedBeforeGrader ==
    IsSubmit =>
      /\ GraderEntered => SubmitAccepted
      /\ (pc = "done" /\ ~SubmitAccepted) =>
            /\ DOMAIN response = {"status", "error"}
            /\ req.auth \in {"no_header", "bad_token", "no_user"} =>
                  response.status = 401
            /\ (req.auth = "ok"
                  /\ \/ req.language \notin VALID_LANGUAGES
                     \/ req.problem_slug = "none"
                     \/ ~validate_files(req.files)[1]) =>
                  response.status = 400
            /\ (req.auth = "ok" /\ req.language \in VALID_LANGUAGES
                  /\ validate_files(req.files)[1]
                  /\ req.problem_slug = "missing") =>
                  response.status \in {404, 500}

\* a request of a logged-in user with a file of MAX_FILE_SIZE + 1 bytes,
\* answered 400 with nothing run and nothing stored
C20_Witness ==
    /\ IsSubmit /\ pc = "done"
    /\ req.auth = "ok" /\ req.language \in VALID_LANGUAGES
    /\ req.problem_slug = "found"
    /\ req.files = <<File("app.py", MAX_FILE_SIZE + 1)>>
    /\ response.status = 400
    /\ ~GraderEntered

\* the first test that did not pass, when there is one
FirstNonPassing == Min(NonPassing(tests))
\* the response carries the result of one or more engine calls
ResultResponse ==
    /\ req.endpoint \in {"submit", "run"}
    /\ pc = "done" /\ response.status = 200
    /\ HasField(response, "verdict")

\* C21: the verdict of a response is CE when the engine result it reports
\* has compiled = false, TLE when the run it reports exited with 124 and
\* MLE when it exited with 137: for the single run of /run, and in the
\* test-case mode of /run and in /submit for the Phase-1 result and for the
\* first test that did not pass.
C21_VerdictReflectsFailureClass ==
    ResultResponse =>
       /\ (HasField(response, "output")) =>
             /\ ~runs[1].compiled => response.verdict = "CE"
             /\ exit_codes[1] = <<124>> => response.verdict = "TLE"
             /\ exit_codes[1] = <<137>> => response.verdict = "MLE"
       /\ CompileFailed => response.verdict = "CE"
       /\ (HasField(response, "tests") /\ NonPassing(tests) # {}
             /\ ~Vetoed) =>
             /\ exit_codes[FirstNonPassing] = <<124>> =>
                   response.verdict = "TLE"
             /\ exit_codes[FirstNonPassing] = <<137>> =>
                   response.verdict = "MLE"

\* C22: a request to /run writes no submission row and no per-test row,
\* whatever its mode, its token and the outcomes of its engine calls.
C22_RunPersistsNothing ==
    req.endpoint = "run" =>
       /\ submissions = <<>>
       /\ submission_testcases = <<>>
       /\ submission_id = 0
       /\ events = <<>>

\* a /run of a logged-in user in test-case mode, answered with the results
\* of two tests
C22_Witness ==
    /\ req.endpoint = "run" /\ req.auth = "ok"
    /\ pc = "done" /\ response.status = 200
    /\ HasField(response, "tests") /\ Len(response.tests) = 2
    /\ response.passed = 1
    /\ submissions = <<>>

\* C23: the per-test rows of a submission that was stored completely are,
\* in insertion order, one per test outcome, row i with the id of the i-th
\* test case and the status of the i-th outcome, under the submission id
\* that the request's own INSERT generated, whatever another request
\* stores in between; while a request is storing, its rows are such a
\* prefix.
C23_TestRowsFollowOutcomes ==
    \A p \in DOMAIN s_pc :
       s_pc[p] \in {"store_testcases", "done"} =>
          LET rows == RowsOf(s_sid[p]) IN
          /\ s_sid[p] \in DOMAIN submissions
          /\ submissions[s_sid[p]].id = s_sid[p]
          /\ submissions[s_sid[p]].user_id = p
          /\ Len(rows) = s_i[p]
          /\ s_pc[p] = "done" => Len(rows) = Len(s_tests[p])
          /\ \A i \in DOMAIN rows :
                /\ rows[i].testcase_id = TestCase(i, FALSE).id
                /\ rows[i].status = s_tests[p][i]

\* two submissions stored completely, the rows of one between the rows of
\* the other
C23_Witness ==
    /\ \A p \in DOMAIN s_pc : s_pc[p] = "done" /\ Len(s_tests[p]) = 2
    /\ DOMAIN s_pc = Submitters
    /\ s_tests[1] # s_tests[2]
    /\ Len(submission_testcases) = 4
    /\ submission_testcases[1].submission_id
          # submission_testcases[2].submission_id
    /\ s_sid[1] = 2

\* `target_filename in code_files`
HasFile(files, name) == \E i \in DOMAIN files : files[i].name = name

\* C24: the text uploaded as main source is files[config["filename"]]
\* whenever the file set has that key, the empty text included, and the
\* first entry of the file set only when it has not.
C24_MainSourceByProfileName ==
    e_main # UNSET =>
       LET name == get_docker_config(e_args.language).filename IN
       /\ HasFile(e_args.files, name) =>
             e_main = FilesGet(e_args.files, name)
       /\ ~HasFile(e_args.files, name) => e_main = e_args.files[1].content

\* C25: every exec of a user-influenced command, the compile command as
\* well as the run command, is wrapped in the in-container timeout prefix.
UserInfluencedExecs == {"compile", "run"}

C25_EveryExecUnderTimeout ==
    \A i \in DOMAIN e_execs :
        e_execs[i].kind \in UserInfluencedExecs => e_execs[i].timeout

\* C27: run_in_docker never propagates an exception to its caller: for every
\* input, a NULL time_limit included, and every driver failure the call ends
\* by returning an ExecutionResult.
C27_NeverRaises == e_pc # "raised"

\* C30: a verdict TLE (resp. MLE) of /submit or of the test-case mode of
\* /run is produced only if the run of the first non-passing test exited
\* with code 124 (resp. 137).
C30_LimitVerdictOnlyFromExitCode ==
    (ResultResponse /\ HasField(response, "tests")) =>
       /\ response.verdict = "TLE" =>
             /\ NonPassing(tests) # {}
             /\ exit_codes[FirstNonPassing] = <<124>>
       /\ response.verdict = "MLE" =>
             /\ NonPassing(tests) # {}
             /\ exit_codes[FirstNonPassing] = <<137>>

\* C26: for the same test cases and the same sequence of engine results,
\* the test-case mode of /run computes the same per-test status, the same
\* passed count and the same top-level error as Phase 2 of the grader.
C26_LoopsAgree ==
    /\ q_run.passed = q_submit.passed
    /\ q_run.overall_error = q_submit.overall_error
    /\ Len(q_run.tests) = Len(q_submit.tests)
    /\ \A i \in DOMAIN q_run.tests :
          q_run.tests[i].status = q_submit.tests[i].status

\* both loops have graded a hidden test that ended in an error and a test
\* that passed, and a second error after the first was recorded
C26_Witness ==
    /\ Len(q_testcases) = 2 /\ Len(q_run.tests) = 2
    /\ q_testcases[1].is_hidden
    /\ q_run.tests[1].status = "RE" /\ q_run.tests[2].status = "RE"
    /\ q_run.tests[1].error # q_run.tests[2].error
    /\ q_run.overall_error = q_run.tests[1].error
    /\ q_run.tests[1].output # q_submit.tests[1].output

\* the /submit response of the tested path
TestedResponse ==
    GradedResponse /\ pc = "done" /\ HasField(response, "tests")
       /\ response.tests # <<>>

\* C29: in every /submit response of the tested path, verdict AC implies
\* that the top-level error is null and that every test entry has status
\* PASS and a null error; any test with an engine error forces a non-AC
\* verdict.
C29_ACMeansNoError ==
    TestedResponse =>
       /\ response.verdict = "AC" =>
             /\ response.error = None
             /\ \A i \in DOMAIN response.tests :
                   /\ response.tests[i].status = "PASS"
                   /\ response.tests[i].error = None
       /\ (\E i \in DOMAIN runs : runs[i].error # <<>>) =>
             response.verdict # "AC"

\* two tests, one of them hidden, both passed and the verdict is AC
C29_Witness ==
    /\ TestedResponse
    /\ response.verdict = "AC"
    /\ Len(response.tests) = 2
    /\ \E i \in DOMAIN response.tests : response.tests[i].is_hidden

\* C28: the rate-limit key of a /submit or /run request is the id of the
\* authenticated user whenever the request carries a valid token, and the
\* remote address only for unauthenticated requests.
C28_KeyIsUserWhenAuthenticated ==
    k_key # None =>
       /\ k_req.auth = "ok" => k_key = <<"user_", ToString(k_req.user_id)>>
       /\ k_req.auth # "ok" => k_key = <<k_req.remote_addr>>

\* both loops have run over all the test cases and computed their verdict
LoopsReturned == q_run.verdict # NoVerdict

\* C31: for the same test cases and the same sequence of engine results,
\* the verdict returned by the test-case mode of /run equals the tests-phase
\* verdict, before the deployment gate, computed by the grader.
C31_VerdictsAgree == LoopsReturned => q_run.verdict = q_submit.verdict

\* a connection is held of a pool that is no longer the shared handle
HeldOfReplacedPool ==
    \E t \in DOMAIN p_thread :
        p_thread[t].conn # 0 /\ p_thread[t].conn # p_pool

\* C32: under concurrent repository operations get_conn never dereferences
\* an unset pool handle and never replaces a pool while another request
\* still holds a connection of it; every get_conn returns a connection or
\* raises a repository error.
C32_PoolHandleSafe ==
    /\ \A t \in DOMAIN p_thread : p_thread[t].pc # "AttributeError"
    /\ ~HeldOfReplacedPool

====
